---- MODULE Spec2Model ----
(***************************************************************************)
(* Categorization and grouping engine of the timesheet dashboard:          *)
(* the keyword / unit-type / sub-category rule tables with their           *)
(* process-wide caches (app/models.py), the administrative mutation        *)
(* surface (app/routes/admin.py, app/routes/upload.py), the aggregation    *)
(* routes that decide reduction targets (app/routes/api.py), the name      *)
(* normalizer and task grouper (app/services/task_grouper.py) and the      *)
(* categorization preview with its rule-based fallback (app/routes/ai.py). *)
(*                                                                         *)
(* A string is a sequence of one-character tokens.  ASCII characters stand *)
(* for themselves; a full-width or Japanese character is written as an     *)
(* ASCII token (for example "fwA" for full-width A, "jDEN" "jWA" for the   *)
(* two characters of the word for telephone).  The empty sequence stands   *)
(* for both the empty string and None: the code tests them with "if not   *)
(* x".                                                                     *)
(***************************************************************************)
EXTENDS Naturals, Integers, Sequences, FiniteSets, TLC

\* ------------------------------------------------------------------ bounds
MaxRules == 2        \* rows a rule table holds (before seeding)
MaxNames == 2        \* names in one grouping request
MaxItems == 2        \* items in one preview request


\* ----------------------------------------------------------------- strings
UpperAscii == <<"A","B","C","D","E","F","G","H","I","J","K","L","M",
                "N","O","P","Q","R","S","T","U","V","W","X","Y","Z">>
LowerAscii == <<"a","b","c","d","e","f","g","h","i","j","k","l","m",
                "n","o","p","q","r","s","t","u","v","w","x","y","z">>
UpperWide == <<"fwA","fwE","fwG","fwL","fwM","fwT">>
LowerWide == <<"fwa","fwe","fwg","fwl","fwm","fwt">>

\* The upper-case characters, each with its lower-case form.
UpperChars ==
  {UpperAscii[i] : i \in 1..Len(UpperAscii)} \cup
  {UpperWide[i] : i \in 1..Len(UpperWide)}

LowerOf ==
  [c \in UpperChars |->
     IF \E i \in 1..Len(UpperAscii) : UpperAscii[i] = c
     THEN LowerAscii[CHOOSE i \in 1..Len(UpperAscii) : UpperAscii[i] = c]
     ELSE LowerWide[CHOOSE i \in 1..Len(UpperWide) : UpperWide[i] = c]]

\* str.lower() on one character.
LowerChar(c) == IF c \in UpperChars THEN LowerOf[c] ELSE c

\* str.lower()
Lower(s) == [i \in 1..Len(s) |-> LowerChar(s[i])]

\* text.startswith(kw)
StartsWith(text, kw) ==
  Len(kw) <= Len(text) /\ SubSeq(text, 1, Len(kw)) = kw

\* text.endswith(kw)
EndsWith(text, kw) ==
  Len(kw) <= Len(text) /\ SubSeq(text, Len(text) - Len(kw) + 1, Len(text)) = kw

\* kw in text
Contains(text, kw) ==
  \E i \in 1..(Len(text) + 1) :
    i + Len(kw) - 1 <= Len(text) /\ SubSeq(text, i, i + Len(kw) - 1) = kw

\* Index of the first i in 1..n with P(i), or 0.
RECURSIVE FirstFrom(_, _, _)
FirstFrom(P(_), i, n) ==
  IF i > n THEN 0 ELSE IF P(i) THEN i ELSE FirstFrom(P, i + 1, n)

\* Stable sort of the positions 1..n of a table by priority descending:
\* ORDER BY priority DESC.  SQL leaves the order of equal priorities open;
\* rev picks between the two id orders.
Before(t, rev, i, j) ==
  \/ t[i].priority > t[j].priority
  \/ t[i].priority = t[j].priority /\ (IF rev THEN i > j ELSE i < j)

RankOf(t, S, rev) ==
  [i \in S |-> Cardinality({j \in S : Before(t, rev, j, i)}) + 1]

\* The same rows by ascending priority.
PriorityOrderOther(t, S, rev) ==
  LET rank == RankOf(t, S, rev)
      n == Cardinality(S)
  IN  [k \in 1..n |-> CHOOSE i \in S : rank[i] = n + 1 - k]

\* The rows S of table t in the order the query returns them.
PriorityOrder(t, S, rev) ==
  LET rank == RankOf(t, S, rev)
  IN  [k \in 1..Cardinality(S) |-> CHOOSE i \in S : rank[i] = k]

\* filter_by(is_active=True)
ActiveRows(t) == {i \in 1..Len(t) : t[i].is_active}

\* --------------------------------------------------------------- the state
VARIABLES
  categories,      \* display_categories: id -> [name, is_reduction_target]
  keywords,        \* category_keywords, in id order
  defaultSetting,  \* app_settings['default_category']
  kwCache,         \* CategoryMapping._keyword_cache
  reductionCache,  \* CategoryMapping._reduction_cache
  defaultCache,    \* CategoryMapping._default_category_cache
  unitRules,       \* unit_type_rules, in id order
  unitCache,       \* UnitTypeRule._cache
  subRules,        \* sub_category_rules, in id order
  subCache,        \* SubCategoryRule._cache
  taskTargets,     \* task_reduction_targets: work_name -> flag, or no row
  taskCache,       \* TaskReductionTarget._cache
  axis,            \* the rule axis the administrator is working on
  ops,             \* rule-mutating requests handled so far
  rpc,             \* reading request: its position in get_cached_rules
  rsnap,           \* reading request: the rows its query returned
  wpc,             \* writing request: its position in the handler
  arg,             \* the argument of the service function being called
  last             \* the last request handled, what it returned, and for
                   \* a rule mutation whether it dropped a loaded cache

kwVars == <<categories, keywords, defaultSetting, kwCache, reductionCache,
            defaultCache>>
unitVars == <<unitRules, unitCache>>
subVars == <<subRules, subCache>>
targetVars == <<taskTargets, taskCache>>
raceVars == <<rpc, rsnap, wpc>>
ctlVars == <<axis, ops>>

vars == <<kwVars, unitVars, subVars, targetVars, raceVars, ctlVars, arg, last>>

\* A class-level cache: None, or the value stored in it.
NoCache == [built |-> FALSE, val |-> <<>>]
Cached(v) == [built |-> TRUE, val |-> v]

\* ------------------------------------------------- categories and settings
\* The five categories seeded at first start-up, in id order; the names are
\* (in the source's words) core work, MTG, clerical, other, travel.
DefaultCategories ==
  <<[name |-> "CoreWork", is_reduction_target |-> FALSE],
    [name |-> "MTG",      is_reduction_target |-> FALSE],
    [name |-> "Clerical", is_reduction_target |-> FALSE],
    [name |-> "Other",    is_reduction_target |-> TRUE],
    [name |-> "Travel",   is_reduction_target |-> TRUE]>>

DefaultCategorySetting == "CoreWork"

\* ------------------------------------------------------------ keyword axis
KeywordMatchTypes == {"contains", "exact", "startswith"}

\* CategoryMapping.get_cached_keywords: the snapshot it stores.
KeywordSnapshot(t, cats, rev) ==
  LET ord == PriorityOrder(t, ActiveRows(t), rev)
  IN  [k \in 1..Len(ord) |->
         [keyword       |-> Lower(t[ord[k]].keyword),
          match_type    |-> t[ord[k]].match_type,
          category_name |-> cats[t[ord[k]].display_category_id].name]]

\* The candidate texts of auto_categorize, lower-cased, in the order tested.
TextsToCheck(source_cat, work_name) ==
  (IF source_cat # <<>> THEN <<Lower(source_cat)>> ELSE <<>>) \o
  (IF work_name # <<>> THEN <<Lower(work_name)>> ELSE <<>>)

\* One pass of the if/elif chain of auto_categorize on a cached rule.
KeywordRuleHits(kw, text) ==
  \/ kw.match_type = "exact" /\ text = kw.keyword
  \/ kw.match_type = "startswith" /\ StartsWith(text, kw.keyword)
  \/ kw.match_type = "contains" /\ Contains(text, kw.keyword)

\* Position of the rule at which the scan of auto_categorize returns, or 0.
\* (The code loops over the rules and, inside, over the texts, and returns
\* at the first hit: the rule it returns at is the first one that hits any
\* text.)
FirstKeywordHit(kws, texts) ==
  FirstFrom(LAMBDA k : \E j \in 1..Len(texts) : KeywordRuleHits(kws[k], texts[j]),
            1, Len(kws))

\* The rules a scan would look at if it ran on an empty list of texts too.
RulesScannedNoGuard(kws, texts) ==
  IF FirstKeywordHit(kws, texts) = 0 THEN Len(kws)
  ELSE FirstKeywordHit(kws, texts)

\* Number of cached rules the scan of auto_categorize looks at.
RulesScanned(kws, texts) ==
  IF texts = <<>> THEN 0
  ELSE IF FirstKeywordHit(kws, texts) = 0 THEN Len(kws)
  ELSE FirstKeywordHit(kws, texts)

\* The value auto_categorize returns, given the cached rules and the value of
\* get_cached_default_category().
AutoCategorizeResult(kws, source_cat, work_name, default) ==
  LET texts == TextsToCheck(source_cat, work_name)
      hit   == FirstKeywordHit(kws, texts)
  IN  IF texts = <<>> THEN default
      ELSE IF hit = 0 THEN default
      ELSE kws[hit].category_name

\* CategoryMapping.get_cached_keywords: the cache after the call.
KeywordCacheAfterGet(rev) ==
  IF kwCache.built THEN kwCache
  ELSE Cached(KeywordSnapshot(keywords, categories, rev))

\* CategoryMapping.get_cached_default_category: the cache after the call.
DefaultCacheAfterGet ==
  IF defaultCache.built THEN defaultCache
  ELSE [built |-> TRUE, val |-> defaultSetting]

\* CategoryMapping.clear_cache
ClearCategoryMappingCache ==
  /\ kwCache' = NoCache
  /\ reductionCache' = [built |-> FALSE, val |-> {}]
  /\ defaultCache' = [built |-> FALSE, val |-> ""]

\* A call of CategoryMapping.auto_categorize(source_cat, work_name).
AutoCategorize(source_cat, work_name) ==
  \E rev \in BOOLEAN :
    LET cache == KeywordCacheAfterGet(rev)
        texts == TextsToCheck(source_cat, work_name)
        usesDefault == texts = <<>> \/ FirstKeywordHit(cache.val, texts) = 0
        dcache == IF usesDefault THEN DefaultCacheAfterGet ELSE defaultCache
    IN  /\ kwCache' = cache
        /\ defaultCache' = dcache
        /\ last' = [op |-> "auto_categorize",
                    source_cat |-> source_cat,
                    work_name |-> work_name,
                    result |-> AutoCategorizeResult(cache.val, source_cat,
                                                    work_name, dcache.val),
                    scanned |-> RulesScanned(cache.val, texts),
                    rebuilt |-> ~kwCache.built,
                    rules |-> cache.val]
        /\ UNCHANGED <<categories, keywords, defaultSetting, reductionCache>>

\* A PUT body: the fields it holds replace the row's.
ApplyBody(row, body) ==
  [f \in DOMAIN row |-> IF f \in DOMAIN body THEN body[f] ELSE row[f]]

\* db.session.delete of the row at position id.
DeleteRow(t, id) == SubSeq(t, 1, id - 1) \o SubSeq(t, id + 1, Len(t))

\* A rule row as the handlers below add it.
KeywordRow(k, c, m, p, act) ==
  [keyword |-> k, display_category_id |-> c, match_type |-> m, priority |-> p,
   is_active |-> act]

\* api_create_keyword: add, commit, return.
ApiCreateKeyword(row) ==
  /\ keywords' = Append(keywords, row)
  /\ last' = [op |-> "api_create_keyword"]
  /\ UNCHANGED <<categories, defaultSetting, kwCache, reductionCache, defaultCache>>

\* api_update_keyword: assign the body's fields, commit, return.
ApiUpdateKeyword(id, body) ==
  /\ id \in 1..Len(keywords)
  /\ keywords' = [keywords EXCEPT ![id] = ApplyBody(@, body)]
  /\ last' = [op |-> "api_update_keyword"]
  /\ UNCHANGED <<categories, defaultSetting, kwCache, reductionCache, defaultCache>>

\* api_delete_keyword: delete, commit, return.
ApiDeleteKeyword(id) ==
  /\ id \in 1..Len(keywords)
  /\ keywords' = DeleteRow(keywords, id)
  /\ last' = [op |-> "api_delete_keyword"]
  /\ UNCHANGED <<categories, defaultSetting, kwCache, reductionCache, defaultCache>>

\* The loop of api_apply_suggestions over data['keywords'].
RECURSIVE ApplySuggestionsLoop(_, _, _, _)
ApplySuggestionsLoop(t, cats, keywords_to_add, i) ==
  IF i > Len(keywords_to_add) THEN t
  ELSE LET kw_data == keywords_to_add[i]
           category == FirstFrom(LAMBDA c : cats[c].name = kw_data.category,
                                 1, Len(cats))
           existing == \E j \in 1..Len(t) : t[j].keyword = kw_data.keyword
       IN  IF category = 0 \/ existing
           THEN ApplySuggestionsLoop(t, cats, keywords_to_add, i + 1)
           ELSE ApplySuggestionsLoop(
                  Append(t, KeywordRow(kw_data.keyword, category, "contains",
                                       10, TRUE)),
                  cats, keywords_to_add, i + 1)

\* api_apply_suggestions
ApiApplySuggestions(keywords_to_add) ==
  /\ keywords' = ApplySuggestionsLoop(keywords, categories, keywords_to_add, 1)
  /\ ClearCategoryMappingCache
  /\ last' = [op |-> "api_apply_suggestions"]
  /\ UNCHANGED <<categories, defaultSetting>>

\* The loop of upload confirm over approved_categories, as the sequence of
\* its items: the work name of the combination key and the category id
\* (0 for an empty one).
RECURSIVE ConfirmLoop(_, _, _)
ConfirmLoop(t, approved, i) ==
  IF i > Len(approved) THEN t
  ELSE LET work_name == approved[i].work_name
           category_id == approved[i].category_id
           existing == \E j \in 1..Len(t) : t[j].keyword = work_name
       IN  IF category_id = 0 \/ work_name = <<>> \/ existing
           THEN ConfirmLoop(t, approved, i + 1)
           ELSE ConfirmLoop(
                  Append(t, KeywordRow(work_name, category_id, "contains",
                                       10, TRUE)),
                  approved, i + 1)

\* upload confirm: the part that stores approved classifications as keyword
\* rules (the work records it imports are not rule state).
UploadConfirm(approved) ==
  /\ keywords' = ConfirmLoop(keywords, approved, 1)
  /\ ClearCategoryMappingCache
  /\ last' = [op |-> "confirm"]
  /\ UNCHANGED <<categories, defaultSetting>>

\* ---------------------------------------------------------- unit-type axis
\* Characters outside ASCII are one token each: "j.." a kanji, "k.." a
\* katakana, "h.." a hiragana character.
kwMTG        == <<"M", "T", "G">>
kwKaigi      == <<"jKAI", "jGI">>
kwMeeting    == <<"kMI", "kBAR", "kTE", "kXI", "kN", "kGU">>
kwUchiawase  == <<"jUTSU", "hCHI", "jAU", "hWA", "hSE">>
kwUchiawase2 == <<"jUTSU", "jAU", "hSE">>
kwMendan     == <<"jMEN", "jDAN">>
kwKenshu     == <<"jKEN", "jSHUU">>
kwIdou       == <<"jI", "jDOU">>
kwTaiou      == <<"jTAI", "jOU">>
kwNyuryoku   == <<"jNYUU", "jRYOKU">>
kwSakusei    == <<"jSAKU", "jSEI">>
kwCheck      == <<"kCHI", "kXE", "kXTSU", "kKU">>
kwKakunin    == <<"jKAKU", "jNIN">>
kwShori      == <<"jSHO", "jRI">>
kwTouroku    == <<"jTOU", "jROKU">>
kwHacchu     == <<"jHATSU", "jCHUU">>
kwTehai      == <<"jTE", "jHAI">>
kwDenwa      == <<"jDEN", "jWA">>
kwNote       == <<"kNO", "kBAR", "kTO">>

UnitRow(k, u, m, p) ==
  [keyword |-> k, unit_type |-> u, match_type |-> m, priority |-> p,
   is_active |-> TRUE]

\* default_rules of UnitTypeRule.seed_default_rules, in list order.
DefaultUnitRules ==
  <<UnitRow(kwMTG, "hours", "contains", 20),
    UnitRow(kwKaigi, "hours", "contains", 20),
    UnitRow(kwMeeting, "hours", "contains", 20),
    UnitRow(kwUchiawase, "hours", "contains", 20),
    UnitRow(kwUchiawase2, "hours", "contains", 20),
    UnitRow(kwMendan, "hours", "contains", 20),
    UnitRow(kwKenshu, "hours", "contains", 20),
    UnitRow(kwIdou, "hours", "contains", 20),
    UnitRow(kwTaiou, "hours", "suffix", 15),
    UnitRow(kwNyuryoku, "count", "suffix", 15),
    UnitRow(kwSakusei, "count", "suffix", 15),
    UnitRow(kwCheck, "count", "suffix", 15),
    UnitRow(kwKakunin, "count", "suffix", 15),
    UnitRow(kwShori, "count", "suffix", 15),
    UnitRow(kwTouroku, "count", "suffix", 15),
    UnitRow(kwHacchu, "count", "suffix", 15),
    UnitRow(kwTehai, "count", "suffix", 15)>>

\* UnitTypeRule.get_cached_rules: the snapshot it stores.
UnitSnapshot(t, rev) ==
  LET ord == PriorityOrder(t, ActiveRows(t), rev)
  IN  [k \in 1..Len(ord) |->
         [keyword    |-> t[ord[k]].keyword,
          unit_type  |-> t[ord[k]].unit_type,
          match_type |-> t[ord[k]].match_type]]

\* UnitTypeRule.get_cached_rules: the cache after the call.
UnitCacheAfterGet(rev) ==
  IF unitCache.built THEN unitCache ELSE Cached(UnitSnapshot(unitRules, rev))

\* A chain that compares the text with the keyword as stored.
SuffixRuleHitsStoredCase(rule, text) ==
  \/ rule.match_type = "exact" /\ text = rule.keyword
  \/ rule.match_type = "suffix" /\ EndsWith(text, rule.keyword)
  \/ rule.match_type = "contains" /\ Contains(text, rule.keyword)

\* The if/elif chain of get_unit_type and get_sub_category on a cached rule.
SuffixRuleHits(rule, text) ==
  \/ rule.match_type = "exact" /\ text = Lower(rule.keyword)
  \/ rule.match_type = "suffix" /\ EndsWith(text, Lower(rule.keyword))
  \/ rule.match_type = "contains" /\ Contains(text, Lower(rule.keyword))

\* The value UnitTypeRule.get_unit_type returns on a non-empty name.
UnitTypeResult(rules, work_name) ==
  LET hit == FirstFrom(LAMBDA k : SuffixRuleHits(rules[k], Lower(work_name)),
                       1, Len(rules))
  IN  IF hit = 0 THEN "hours" ELSE rules[hit].unit_type

\* A handler that leaves the cache as it is.
ClearUnitCacheSkipped == unitCache' = unitCache

\* UnitTypeRule.clear_cache
ClearUnitCache == unitCache' = NoCache

\* A call of UnitTypeRule.get_unit_type(work_name).
GetUnitType(work_name) ==
  IF work_name = <<>>
  THEN /\ last' = [op |-> "get_unit_type", work_name |-> work_name,
                   result |-> "hours", rebuilt |-> FALSE, rules |-> <<>>]
       /\ UNCHANGED unitVars
  ELSE \E rev \in BOOLEAN :
         LET cache == UnitCacheAfterGet(rev)
         IN  /\ unitCache' = cache
             /\ last' = [op |-> "get_unit_type", work_name |-> work_name,
                         result |-> UnitTypeResult(cache.val, work_name),
                         rebuilt |-> ~unitCache.built, rules |-> cache.val]
             /\ UNCHANGED unitRules

\* A loop that adds every default, whatever the table holds.
RECURSIVE SeedLoopNoLookup(_, _, _, _)
SeedLoopNoLookup(t, defaults, i, KeyFields) ==
  IF i > Len(defaults) THEN t
  ELSE SeedLoopNoLookup(Append(t, defaults[i]), defaults, i + 1, KeyFields)

\* A loop that resets the rows holding a default's natural key to the
\* default.
RECURSIVE SeedLoopOverwrite(_, _, _, _)
SeedLoopOverwrite(t, defaults, i, KeyFields) ==
  IF i > Len(defaults) THEN t
  ELSE IF \E j \in 1..Len(t) :
            \A f \in KeyFields : t[j][f] = defaults[i][f]
       THEN SeedLoopOverwrite(
              [j \in 1..Len(t) |->
                 IF \A f \in KeyFields : t[j][f] = defaults[i][f]
                 THEN defaults[i] ELSE t[j]],
              defaults, i + 1, KeyFields)
       ELSE SeedLoopOverwrite(Append(t, defaults[i]), defaults, i + 1,
                              KeyFields)

\* The loop of seed_default_rules: each default is added unless a row with
\* its natural key exists (the session autoflushes, so the query sees the
\* rows added earlier in the loop).  KeyFields are the columns of filter_by.
RECURSIVE SeedLoop(_, _, _, _)
SeedLoop(t, defaults, i, KeyFields) ==
  IF i > Len(defaults) THEN t
  ELSE IF \E j \in 1..Len(t) :
            \A f \in KeyFields : t[j][f] = defaults[i][f]
       THEN SeedLoop(t, defaults, i + 1, KeyFields)
       ELSE SeedLoop(Append(t, defaults[i]), defaults, i + 1, KeyFields)

\* api_create_unit_rule
ApiCreateUnitRule(row) ==
  /\ unitRules' = Append(unitRules, row)
  /\ ClearUnitCache
  /\ last' = [op |-> "api_create_unit_rule", dropped |-> unitCache.built]

\* api_update_unit_rule
ApiUpdateUnitRule(id, body) ==
  /\ id \in 1..Len(unitRules)
  /\ unitRules' = [unitRules EXCEPT ![id] = ApplyBody(@, body)]
  /\ ClearUnitCache
  /\ last' = [op |-> "api_update_unit_rule", dropped |-> unitCache.built]

\* api_delete_unit_rule
ApiDeleteUnitRule(id) ==
  /\ id \in 1..Len(unitRules)
  /\ unitRules' = DeleteRow(unitRules, id)
  /\ ClearUnitCache
  /\ last' = [op |-> "api_delete_unit_rule", dropped |-> unitCache.built]

\* api_seed_unit_rules: UnitTypeRule.seed_default_rules
ApiSeedUnitRules ==
  /\ unitRules' = SeedLoop(unitRules, DefaultUnitRules, 1,
                           {"keyword"})
  /\ ClearUnitCache
  /\ last' = [op |-> "api_seed_unit_rules", dropped |-> unitCache.built]

\* ------------------------------------------------------- sub-category axis
\* A parent_category_id of None is 0: ids start at 1 and the code only tests
\* the column's truthiness.
SubRow(n, k, m, p, parent) ==
  [parent_category_id |-> parent, sub_category_name |-> n, keyword |-> k,
   match_type |-> m, priority |-> p, is_active |-> TRUE]

\* default_rules of SubCategoryRule.seed_default_rules, in list order.
DefaultSubRules(core_id) ==
  <<SubRow("Production", kwNote \o kwSakusei, "contains", 20, core_id),
    SubRow("Production", <<"jSHO2", "jRUI">> \o kwSakusei, "contains", 20, core_id),
    SubRow("Production", <<"jSHI", "jRYOU">> \o kwSakusei, "contains", 20, core_id),
    SubRow("Production", kwSakusei, "suffix", 10, core_id),
    SubRow("Specialist", <<"W">> \o kwCheck, "contains", 20, core_id),
    SubRow("Specialist", <<"kRE", "kSE">> \o kwCheck, "contains", 20, core_id),
    SubRow("Specialist", kwCheck, "suffix", 10, core_id),
    SubRow("CustomerFacing", kwDenwa \o kwTaiou, "contains", 20, core_id),
    SubRow("CustomerFacing", <<"kME", "kBAR", "kRU">> \o kwTaiou, "contains", 20, core_id),
    SubRow("CustomerFacing", <<"T", "E", "L">> \o kwTaiou, "contains", 20, core_id),
    SubRow("CustomerFacing", kwTaiou, "suffix", 10, core_id),
    SubRow("Technical", <<"jSE", "jKOU">>, "contains", 15, core_id),
    SubRow("Technical", <<"jGI2", "jKOU">>, "contains", 15, core_id),
    SubRow("Input", kwNote \o kwNyuryoku, "contains", 20, core_id),
    SubRow("Input", kwNyuryoku, "suffix", 10, core_id)>>

\* DisplayCategory.query.filter_by(name=...).first().id, None (0) if absent;
\* a category's id is its position in the table.
CategoryIdByName(cats, name) ==
  LET hit == FirstFrom(LAMBDA i : cats[i].name = name, 1, Len(cats))
  IN  hit

\* SubCategoryRule.get_cached_rules: the snapshot it stores.
SubSnapshot(t, rev) ==
  LET ord == PriorityOrder(t, ActiveRows(t), rev)
  IN  [k \in 1..Len(ord) |->
         [keyword            |-> t[ord[k]].keyword,
          sub_category_name  |-> t[ord[k]].sub_category_name,
          match_type         |-> t[ord[k]].match_type,
          parent_category_id |-> t[ord[k]].parent_category_id]]

\* SubCategoryRule.get_cached_rules: the cache after the call.
SubCacheAfterGet(rev) ==
  IF subCache.built THEN subCache ELSE Cached(SubSnapshot(subRules, rev))

\* The value SubCategoryRule.get_sub_category returns on a non-empty name;
\* "None" stands for None.
SubCategoryResult(rules, work_name, parent_category_id) ==
  LET Skipped(rule) == /\ parent_category_id # 0
                       /\ rule.parent_category_id # 0
                       /\ rule.parent_category_id # parent_category_id
      hit == FirstFrom(LAMBDA k : /\ ~Skipped(rules[k])
                                  /\ SuffixRuleHits(rules[k], Lower(work_name)),
                       1, Len(rules))
  IN  IF hit = 0 THEN "None" ELSE rules[hit].sub_category_name

\* SubCategoryRule.clear_cache
ClearSubCache == subCache' = NoCache

\* A call of SubCategoryRule.get_sub_category(work_name, parent_category_id).
GetSubCategory(work_name, parent_category_id) ==
  IF work_name = <<>>
  THEN /\ last' = [op |-> "get_sub_category", work_name |-> work_name,
                   result |-> "None", rebuilt |-> FALSE, rules |-> <<>>]
       /\ UNCHANGED subVars
  ELSE \E rev \in BOOLEAN :
         LET cache == SubCacheAfterGet(rev)
         IN  /\ subCache' = cache
             /\ last' = [op |-> "get_sub_category", work_name |-> work_name,
                         result |-> SubCategoryResult(cache.val, work_name,
                                                      parent_category_id),
                         rebuilt |-> ~subCache.built, rules |-> cache.val]
             /\ UNCHANGED subRules

\* api_create_sub_category_rule
ApiCreateSubCategoryRule(row) ==
  /\ subRules' = Append(subRules, row)
  /\ ClearSubCache
  /\ last' = [op |-> "api_create_sub_category_rule", dropped |-> subCache.built]

\* api_update_sub_category_rule
ApiUpdateSubCategoryRule(id, body) ==
  /\ id \in 1..Len(subRules)
  /\ subRules' = [subRules EXCEPT ![id] = ApplyBody(@, body)]
  /\ ClearSubCache
  /\ last' = [op |-> "api_update_sub_category_rule", dropped |-> subCache.built]

\* api_delete_sub_category_rule
ApiDeleteSubCategoryRule(id) ==
  /\ id \in 1..Len(subRules)
  /\ subRules' = DeleteRow(subRules, id)
  /\ ClearSubCache
  /\ last' = [op |-> "api_delete_sub_category_rule", dropped |-> subCache.built]

\* api_seed_sub_category_rules: SubCategoryRule.seed_default_rules
ApiSeedSubCategoryRules ==
  /\ subRules' = SeedLoop(subRules,
                          DefaultSubRules(CategoryIdByName(categories, "CoreWork")),
                          1, {"keyword", "sub_category_name"})
  /\ ClearSubCache
  /\ last' = [op |-> "api_seed_sub_category_rules", dropped |-> subCache.built]

\* ------------------------------------------- the classifier on any rule set
\* Keywords and texts of the classifier runs: an upper-case keyword, and
\* texts that equal it, start with it, end with it, or are empty.
ClsKeywords == {<<"M">>}
ClsTexts == {<<>>, <<"m">>, <<"M", "T">>, <<"t", "m">>}
ClsCategoryIds == {2, 4}
ClsPriorities == {10, 30}

KeywordRows ==
  [keyword : ClsKeywords, display_category_id : ClsCategoryIds,
   match_type : KeywordMatchTypes, priority : ClsPriorities,
   is_active : BOOLEAN]

\* All tables of at most n rows.
TablesOf(rows, n) == UNION {[1..k -> rows] : k \in 0..n}

InitCaches ==
  /\ kwCache = NoCache
  /\ reductionCache = [built |-> FALSE, val |-> {}]
  /\ defaultCache = [built |-> FALSE, val |-> ""]

\* The parts of the state a specification does not use.
IdleUnit == unitRules = <<>> /\ unitCache = NoCache
IdleSub == subRules = <<>> /\ subCache = NoCache
IdleTargets == taskTargets = <<>> /\ taskCache = [built |-> FALSE, val |-> {}]
IdleRace == rpc = "idle" /\ rsnap = <<>> /\ wpc = "idle"
IdleCtl == axis = "keyword" /\ ops = 0
IdleArg == arg = <<>>

InitClassify ==
  /\ categories = DefaultCategories
  /\ keywords \in TablesOf(KeywordRows, MaxRules)
  /\ defaultSetting = DefaultCategorySetting
  /\ InitCaches
  /\ IdleUnit /\ IdleSub /\ IdleTargets /\ IdleRace /\ IdleCtl /\ IdleArg
  /\ last = [op |-> "start"]

\* Each run classifies one pair of texts on a process that has not loaded
\* its keyword cache yet.
NextClassify ==
  \E source_cat \in ClsTexts, work_name \in ClsTexts :
    /\ ~kwCache.built
    /\ AutoCategorize(source_cat, work_name)
    /\ UNCHANGED <<unitVars, subVars, targetVars, raceVars, ctlVars, arg>>

SpecClassify == InitClassify /\ [][NextClassify]_vars

\* The rows of the committed keyword table that are active and whose
\* predicate holds of a candidate text of the call.
MatchingRows(source_cat, work_name) ==
  {i \in 1..Len(keywords) :
     /\ keywords[i].is_active
     /\ \E j \in 1..Len(TextsToCheck(source_cat, work_name)) :
          KeywordRuleHits([keyword |-> Lower(keywords[i].keyword),
                           match_type |-> keywords[i].match_type],
                          TextsToCheck(source_cat, work_name)[j])}

\* C1: auto_categorize returns the category of a matching active rule of the
\* highest priority among the matching active rules, whatever the insertion
\* order of the rules.
C1_HighestPriorityWins ==
  last.op = "auto_categorize" =>
    LET M == MatchingRows(last.source_cat, last.work_name)
    IN  M # {} =>
          \E i \in M :
            /\ \A j \in M : keywords[j].priority <= keywords[i].priority
            /\ last.result = categories[keywords[i].display_category_id].name

\* C1 witness: two active rules of different priority and different category
\* both match, the higher one inserted last, and it decided the call.
C1_Witness ==
  /\ last.op = "auto_categorize"
  /\ Len(keywords) = 2
  /\ MatchingRows(last.source_cat, last.work_name) = {1, 2}
  /\ keywords[1].priority < keywords[2].priority
  /\ keywords[1].display_category_id # keywords[2].display_category_id
  /\ last.result = categories[keywords[2].display_category_id].name

\* C4: auto_categorize returns the default category when no active rule
\* matches a candidate text, and with both texts empty it returns the default
\* without looking at any rule.
C4_DefaultFallback ==
  last.op = "auto_categorize" =>
    /\ MatchingRows(last.source_cat, last.work_name) = {}
         => last.result = defaultSetting
    /\ (last.source_cat = <<>> /\ last.work_name = <<>>)
         => (last.result = defaultSetting /\ last.scanned = 0)

\* C4 witness: a call with a non-empty text on a table whose two active rules
\* both fail to match it; all of them were scanned and the default came back.
C4_Witness ==
  /\ last.op = "auto_categorize"
  /\ last.work_name # <<>>
  /\ Cardinality(ActiveRows(keywords)) = 2
  /\ MatchingRows(last.source_cat, last.work_name) = {}
  /\ last.scanned = 2
  /\ last.result = defaultSetting

\* ------------------------------------------------- rule administration
\* An administrator works on one rule axis, mixing at most MaxOps mutating
\* requests with any number of classifying calls.
MaxOps == 2

AdmKeywordRows ==
  {KeywordRow(<<"M">>, 2, "contains", 30, TRUE),
   KeywordRow(<<"M">>, 4, "startswith", 0, TRUE),
   KeywordRow(<<"t">>, 4, "contains", 30, FALSE)}

AdmKeywordBodies ==
  {[is_active |-> FALSE], [priority |-> 50, display_category_id |-> 3]}

AdmSuggestions ==
  {<<[category |-> "MTG", keyword |-> <<"t">>]>>,
   <<[category |-> "Unknown", keyword |-> <<"M">>],
     [category |-> "Other", keyword |-> <<"M">>],
     [category |-> "MTG", keyword |-> <<"M">>]>>}

AdmApproved ==
  {<<[work_name |-> <<"m", "t">>, category_id |-> 2]>>,
   <<[work_name |-> <<>>, category_id |-> 2],
     [work_name |-> <<"M">>, category_id |-> 0],
     [work_name |-> <<"M">>, category_id |-> 4]>>}

AdmKeywordCalls ==
  {<<<<>>, <<>>>>, <<<<>>, <<"m", "t">>>>, <<<<"T">>, <<"M">>>>}

AdmUnitRows ==
  {[keyword |-> kwTaiou, unit_type |-> "count", match_type |-> "suffix",
    priority |-> 10, is_active |-> TRUE],
   [keyword |-> kwDenwa, unit_type |-> "count", match_type |-> "contains",
    priority |-> 30, is_active |-> TRUE],
   [keyword |-> kwMTG, unit_type |-> "hours", match_type |-> "exact",
    priority |-> 30, is_active |-> FALSE]}

AdmUnitBodies ==
  {[is_active |-> FALSE], [priority |-> 30, unit_type |-> "count"]}

AdmWorkNames ==
  {<<>>, kwDenwa \o kwTaiou, <<"m", "t", "g">> \o kwNyuryoku}

AdmSubRows ==
  {SubRow("Input", kwTaiou, "suffix", 10, 1),
   SubRow("Technical", kwDenwa, "contains", 30, 2),
   [SubRow("Technical", kwNyuryoku, "exact", 30, 0) EXCEPT !.is_active = FALSE]}

AdmSubBodies ==
  {[is_active |-> FALSE], [priority |-> 30, parent_category_id |-> 2]}

AdmParents == {0, 1}

Init ==
  /\ categories = DefaultCategories
  /\ keywords = <<>>
  /\ defaultSetting = DefaultCategorySetting
  /\ InitCaches
  /\ unitRules = <<>> /\ unitCache = NoCache
  /\ subRules = <<>> /\ subCache = NoCache
  /\ IdleTargets /\ IdleRace /\ IdleArg
  /\ axis \in {"keyword", "unit", "sub"}
  /\ ops = 0
  /\ last = [op |-> "start"]

\* A mutating request counts against the budget.
Mutating(A) == ops < MaxOps /\ ops' = ops + 1 /\ A

KeywordAxis(A) ==
  axis = "keyword" /\ A /\ UNCHANGED <<unitVars, subVars, targetVars, raceVars, axis, arg>>

UnitAxis(A) ==
  axis = "unit" /\ A /\ UNCHANGED <<kwVars, subVars, targetVars, raceVars, axis, arg>>

SubAxis(A) ==
  axis = "sub" /\ A /\ UNCHANGED <<kwVars, unitVars, targetVars, raceVars, axis, arg>>

Next ==
  \/ \E c \in AdmKeywordCalls :
       KeywordAxis(AutoCategorize(c[1], c[2]) /\ UNCHANGED ops)
  \/ \E row \in AdmKeywordRows : KeywordAxis(Mutating(ApiCreateKeyword(row)))
  \/ \E id \in 1..Len(keywords), body \in AdmKeywordBodies :
       KeywordAxis(Mutating(ApiUpdateKeyword(id, body)))
  \/ \E id \in 1..Len(keywords) : KeywordAxis(Mutating(ApiDeleteKeyword(id)))
  \/ \E l \in AdmSuggestions : KeywordAxis(Mutating(ApiApplySuggestions(l)))
  \/ \E a \in AdmApproved : KeywordAxis(Mutating(UploadConfirm(a)))
  \/ \E n \in AdmWorkNames : UnitAxis(GetUnitType(n) /\ UNCHANGED ops)
  \/ \E row \in AdmUnitRows : UnitAxis(Mutating(ApiCreateUnitRule(row)))
  \/ \E id \in 1..Len(unitRules), body \in AdmUnitBodies :
       UnitAxis(Mutating(ApiUpdateUnitRule(id, body)))
  \/ \E id \in 1..Len(unitRules) : UnitAxis(Mutating(ApiDeleteUnitRule(id)))
  \/ UnitAxis(Mutating(ApiSeedUnitRules))
  \/ \E n \in AdmWorkNames, parent \in AdmParents :
       SubAxis(GetSubCategory(n, parent) /\ UNCHANGED ops)
  \/ \E row \in AdmSubRows : SubAxis(Mutating(ApiCreateSubCategoryRule(row)))
  \/ \E id \in 1..Len(subRules), body \in AdmSubBodies :
       SubAxis(Mutating(ApiUpdateSubCategoryRule(id, body)))
  \/ \E id \in 1..Len(subRules) : SubAxis(Mutating(ApiDeleteSubCategoryRule(id)))
  \/ SubAxis(Mutating(ApiSeedSubCategoryRules))

Spec == Init /\ [][Next]_vars

\* What a served list says of one row of each rule table.
KeywordEntry(r) ==
  [keyword |-> Lower(r.keyword), match_type |-> r.match_type,
   category_name |-> categories[r.display_category_id].name]

UnitEntry(r) ==
  [keyword |-> r.keyword, unit_type |-> r.unit_type, match_type |-> r.match_type]

SubEntry(r) ==
  [keyword |-> r.keyword, sub_category_name |-> r.sub_category_name,
   match_type |-> r.match_type, parent_category_id |-> r.parent_category_id]

\* served lists exactly the active rows of table t, each once, in
\* non-increasing priority order.  Rows with the same entry are told apart
\* by giving the earlier position the higher priority.
ExactlyActiveByPriority(served, t, Entry(_)) ==
  LET active == {i \in 1..Len(t) : t[i].is_active = TRUE}
      Rows(e) == {i \in active : Entry(t[i]) = e}
      Occ(e, k) == Cardinality({j \in 1..k : served[j] = e})
      PrioAt(k) ==
        LET R == Rows(served[k])
            m == Occ(served[k], k)
        IN  CHOOSE p \in {t[i].priority : i \in R} :
              /\ Cardinality({i \in R : t[i].priority > p}) < m
              /\ m <= Cardinality({i \in R : t[i].priority >= p})
  IN  /\ Len(served) = Cardinality(active)
      /\ \A i \in active :
           Occ(Entry(t[i]), Len(served)) = Cardinality(Rows(Entry(t[i])))
      /\ \A k \in 1..(Len(served) - 1) : PrioAt(k) >= PrioAt(k + 1)

\* C2: after any keyword-rule mutation has returned, a call of
\* auto_categorize returns what the committed rule set yields for its texts
\* (for one of the orders the database may give equal priorities).
C2_CallSeesCommittedRules ==
  last.op = "auto_categorize" =>
    \E rev \in BOOLEAN :
      last.result = AutoCategorizeResult(
                      KeywordSnapshot(keywords, categories, rev),
                      last.source_cat, last.work_name, defaultSetting)

UnitMutations ==
  {"api_create_unit_rule", "api_update_unit_rule", "api_delete_unit_rule",
   "api_seed_unit_rules"}

SubMutations ==
  {"api_create_sub_category_rule", "api_update_sub_category_rule",
   "api_delete_sub_category_rule", "api_seed_sub_category_rules"}

RaceTables == TablesOf(AdmUnitRows, MaxRules)

InitRace ==
  /\ categories = DefaultCategories
  /\ keywords = <<>>
  /\ defaultSetting = DefaultCategorySetting
  /\ InitCaches
  /\ unitRules \in RaceTables
  /\ \/ unitCache = NoCache
     \/ \E rev \in BOOLEAN : unitCache = Cached(UnitSnapshot(unitRules, rev))
  /\ IdleSub /\ IdleTargets /\ IdleArg
  /\ rpc = "check" /\ rsnap = <<>> /\ wpc = "commit"
  /\ axis = "unit" /\ ops = 0
  /\ last = [op |-> "start"]

\* get_cached_rules: "if cls._cache is None"
ReaderCheck ==
  /\ rpc = "check"
  /\ IF unitCache.built
     THEN /\ rpc' = "done"
          /\ last' = [op |-> "get_cached_rules", rules |-> unitCache.val]
     ELSE /\ rpc' = "query"
          /\ UNCHANGED last
  /\ UNCHANGED <<unitVars, rsnap, wpc>>

\* get_cached_rules: the query and the list built from its rows
ReaderQuery ==
  /\ rpc = "query"
  /\ \E rev \in BOOLEAN : rsnap' = UnitSnapshot(unitRules, rev)
  /\ rpc' = "store"
  /\ UNCHANGED <<unitVars, wpc, last>>

\* get_cached_rules: "cls._cache = [...]" and "return cls._cache"
ReaderStore ==
  /\ rpc = "store"
  /\ unitCache' = Cached(rsnap)
  /\ rpc' = "done"
  /\ last' = [op |-> "get_cached_rules", rules |-> rsnap]
  /\ UNCHANGED <<unitRules, rsnap, wpc>>

\* a unit-rule handler up to and including db.session.commit()
WriterCommit ==
  /\ wpc = "commit"
  /\ \/ \E row \in AdmUnitRows : unitRules' = Append(unitRules, row)
     \/ \E id \in 1..Len(unitRules), body \in AdmUnitBodies :
          unitRules' = [unitRules EXCEPT ![id] = ApplyBody(@, body)]
     \/ \E id \in 1..Len(unitRules) : unitRules' = DeleteRow(unitRules, id)
     \/ unitRules' = SeedLoop(unitRules, DefaultUnitRules, 1, {"keyword"})
  /\ wpc' = "clear"
  /\ UNCHANGED <<unitCache, rpc, rsnap, last>>

\* the handler's UnitTypeRule.clear_cache() and return
WriterClear ==
  /\ wpc = "clear"
  /\ ClearUnitCache
  /\ wpc' = "done"
  /\ UNCHANGED <<unitRules, rpc, rsnap, last>>

RaceStep(A) == A /\ UNCHANGED <<kwVars, subVars, targetVars, ctlVars, arg>>

NextRace ==
  \/ RaceStep(ReaderCheck)
  \/ RaceStep(ReaderQuery)
  \/ RaceStep(ReaderStore)
  \/ RaceStep(WriterCommit)
  \/ RaceStep(WriterClear)

SpecRace == InitRace /\ [][NextRace]_vars

\* C3: once the reading request and the mutating request have both
\* finished, the cache is empty or lists exactly the committed active rules;
\* no snapshot taken before the commit outlives the invalidation.
C3_NoStaleSnapshotSurvives ==
  (rpc = "done" /\ wpc = "done" /\ unitCache.built) =>
    ExactlyActiveByPriority(unitCache.val, unitRules, UnitEntry)

\* ------------------------------------------------ work-name normalisation
\* Character classes of the regular expressions of normalize_work_name, on
\* the model's tokens: "fwSP" is the full-width space, "fw(" and "fw)" the
\* full-width brackets, "fw1" a full-width digit.
SpaceChars == {" ", "fwSP"}
DigitChars == {"0", "1", "2", "3", "4", "5", "6", "7", "8", "9", "fw1"}
LetterChars ==
  {UpperAscii[i] : i \in 1..26} \cup {LowerAscii[i] : i \in 1..26} \cup
  {UpperWide[i] : i \in 1..Len(UpperWide)} \cup
  {LowerWide[i] : i \in 1..Len(LowerWide)}
OpenBrackets == {"(", "fw("}
CloseBrackets == {")", "fw)"}

\* str.strip()
Strip(s) ==
  LET keep == {i \in 1..Len(s) : s[i] \notin SpaceChars}
  IN  IF keep = {} THEN <<>>
      ELSE SubSeq(s, CHOOSE i \in keep : \A j \in keep : i <= j,
                     CHOOSE i \in keep : \A j \in keep : i >= j)

\* str.rstrip(), the effect of a leading \s* in a pattern anchored at the end
DropTrailingSpaces(s) ==
  LET keep == {i \in 1..Len(s) : s[i] \notin SpaceChars}
  IN  IF keep = {} THEN <<>>
      ELSE SubSeq(s, 1, CHOOSE i \in keep : \A j \in keep : i >= j)

\* re.sub(r'[(][^)]*[)]', '', s) with both widths of bracket: scanning from
\* the left, an opening bracket with a closing bracket after it is removed
\* together with everything up to the first closing bracket.
RECURSIVE RemoveBracketed(_, _)
RemoveBracketed(s, i) ==
  IF i > Len(s) THEN <<>>
  ELSE LET closers == {j \in (i + 1)..Len(s) : s[j] \in CloseBrackets}
       IN  IF s[i] \in OpenBrackets /\ closers # {}
           THEN RemoveBracketed(s, (CHOOSE j \in closers :
                                      \A k \in closers : j <= k) + 1)
           ELSE <<s[i]>> \o RemoveBracketed(s, i + 1)

\* re.sub(r'\s*[A-Za-z]$', '', s), full-width letters included
DropTrailingLetter(s) ==
  IF s # <<>> /\ s[Len(s)] \in LetterChars
  THEN DropTrailingSpaces(SubSeq(s, 1, Len(s) - 1))
  ELSE s

\* re.sub(r'\s*\d{1,2}$', '', s): the leftmost match takes two digits when
\* the last two characters are digits
DropTrailingDigits(s) ==
  LET n == Len(s)
  IN  IF n >= 2 /\ s[n] \in DigitChars /\ s[n - 1] \in DigitChars
      THEN DropTrailingSpaces(SubSeq(s, 1, n - 2))
      ELSE IF n >= 1 /\ s[n] \in DigitChars
           THEN DropTrailingSpaces(SubSeq(s, 1, n - 1))
           ELSE s

\* str.replace(abbr, full)
RECURSIVE Replace(_, _, _, _)
Replace(s, abbr, full, i) ==
  IF i > Len(s) THEN <<>>
  ELSE IF i + Len(abbr) - 1 <= Len(s) /\ SubSeq(s, i, i + Len(abbr) - 1) = abbr
       THEN full \o Replace(s, abbr, full, i + Len(abbr))
       ELSE <<s[i]>> \o Replace(s, abbr, full, i + 1)

\* The abbreviations dictionary, in insertion order.
Abbreviations ==
  <<<<<<"T", "E", "L">>, kwDenwa>>, <<<<"t", "e", "l">>, kwDenwa>>,
    <<<<"T", "e", "l">>, kwDenwa>>, <<<<"M", "T", "G">>, kwKaigi>>,
    <<<<"m", "t", "g">>, kwKaigi>>, <<<<"M", "t", "g">>, kwKaigi>>,
    <<<<"fwT", "fwE", "fwL">>, kwDenwa>>, <<<<"fwM", "fwT", "fwG">>, kwKaigi>>>>

RECURSIVE ReplaceAbbreviations(_, _)
ReplaceAbbreviations(s, k) ==
  IF k > Len(Abbreviations) THEN s
  ELSE ReplaceAbbreviations(
         Replace(s, Abbreviations[k][1], Abbreviations[k][2], 1), k + 1)

\* re.sub(r'\s+', ' ', s)
RECURSIVE CollapseSpaces(_, _)
CollapseSpaces(s, i) ==
  IF i > Len(s) THEN <<>>
  ELSE IF s[i] \in SpaceChars
       THEN IF i > 1 /\ s[i - 1] \in SpaceChars
            THEN CollapseSpaces(s, i + 1)
            ELSE <<" ">> \o CollapseSpaces(s, i + 1)
       ELSE <<s[i]>> \o CollapseSpaces(s, i + 1)

\* normalize_work_name
normalize_work_name(name) ==
  IF name = <<>> THEN <<>>
  ELSE LET s0 == Strip(name)
           s1 == RemoveBracketed(s0, 1)
           s2 == DropTrailingLetter(s1)
           s3 == DropTrailingDigits(s2)
           s4 == ReplaceAbbreviations(s3, 1)
       IN  Strip(CollapseSpaces(s4, 1))

\* Names of at most MaxLen characters over letters that spell an
\* abbreviation, brackets, a space, a digit and a kanji.
MaxLen == 4

NormAlphabet == {"T", "E", "L", "(", ")", " ", "1", "jDEN"}

NormNames == UNION {[1..k -> NormAlphabet] : k \in 0..MaxLen}

\* Names that end, after a kanji and possibly a space, in a number or in
\* Latin letters.
SuffixedNames ==
  {<<"jDEN">> \o sep \o tail :
     sep \in {<<>>, <<" ">>},
     tail \in {<<"4">>, <<"2", "4">>, <<"0", "2", "4">>, <<"2", "0", "2", "4">>,
               <<"B">>, <<"A", "B">>, <<"P", "D", "F">>}}

InitNorm ==
  /\ categories = DefaultCategories
  /\ keywords = <<>>
  /\ defaultSetting = DefaultCategorySetting
  /\ InitCaches
  /\ IdleUnit /\ IdleSub /\ IdleTargets /\ IdleRace /\ IdleCtl
  /\ arg \in NormNames \cup SuffixedNames
  /\ last = [op |-> "start"]

\* normalize_work_name(arg)
NormalizeWorkName ==
  /\ last.op = "start"
  /\ last' = [op |-> "normalize_work_name", name |-> arg,
              result |-> normalize_work_name(arg), of_result |-> FALSE]
  /\ UNCHANGED arg

\* normalize_work_name applied to the name the previous call returned
NormalizeResult ==
  /\ last.op = "normalize_work_name" /\ ~last.of_result
  /\ arg' = last.result
  /\ last' = [op |-> "normalize_work_name", name |-> last.result,
              result |-> normalize_work_name(last.result), of_result |-> TRUE]

NormStep(A) ==
  A /\ UNCHANGED <<kwVars, unitVars, subVars, targetVars, raceVars, ctlVars>>

NextNorm ==
  \/ NormStep(NormalizeWorkName)
  \/ NormStep(NormalizeResult)

SpecNorm == InitNorm /\ [][NextNorm]_vars

\* C7: normalize_work_name is idempotent: applied to a name it returned, it
\* returns that name unchanged.
C7_NormalizeIdempotent ==
  (last.op = "normalize_work_name" /\ last.of_result) =>
    last.result = last.name

\* The number of characters at the end of s that are in S.
RECURSIVE TrailingRun(_, _)
TrailingRun(s, S) ==
  IF s = <<>> \/ s[Len(s)] \notin S THEN 0
  ELSE 1 + TrailingRun(SubSeq(s, 1, Len(s) - 1), S)

\* The last n characters of s.
LastChars(s, n) == SubSeq(s, Len(s) - n + 1, Len(s))

\* C17: a name that ends in a number of more than two digits is returned
\* with all the digits of that number at its end.
C17_LongNumberKept ==
  (last.op = "normalize_work_name" /\ ~last.of_result) =>
    LET name == Strip(last.name)
        run == TrailingRun(name, DigitChars)
    IN  run > 2 => EndsWith(last.result, LastChars(name, run))

\* C18: a name that ends in a word of two or more Latin letters, none of
\* them part of an abbreviation, is returned with that word at its end.
C18_LatinWordKept ==
  (last.op = "normalize_work_name" /\ ~last.of_result) =>
    LET name == Strip(last.name)
        run == TrailingRun(name, LetterChars)
    IN  (run >= 2 /\ ReplaceAbbreviations(name, 1) = name) =>
          EndsWith(last.result, LastChars(name, run))

\* ---------------------------------------------------------- local grouping
kwMail == <<"kME", "kBAR", "kRU">>

\* re.match(r'.*a.*b.*', s): a occurs in s and b occurs after it
ContainsThen(s, a, b) ==
  \E i \in 1..Len(s) :
    /\ i + Len(a) - 1 <= Len(s)
    /\ SubSeq(s, i, i + Len(a) - 1) = a
    /\ Contains(SubSeq(s, i + Len(a), Len(s)), b)

\* MERGE_PATTERNS, in list order: whether the pattern matches, and the
\* unified name.
MergePatterns(rep) ==
  <<<<ContainsThen(rep, kwDenwa, kwTaiou), kwDenwa \o kwTaiou>>,
    <<ContainsThen(rep, kwMail, kwTaiou), kwMail \o kwTaiou>>,
    <<ContainsThen(rep, kwDenwa, kwMail), kwDenwa \o <<"/">> \o kwMail \o kwTaiou>>,
    <<Contains(rep, kwIdou), kwIdou>>,
    <<\/ Contains(rep, kwUchiawase)
      \/ Contains(rep, <<"jUTSU", "jAU", "hWA", "hSE">>), kwUchiawase>>,
    <<Contains(rep, kwMeeting), kwKaigi>>>>

\* A choice of the last pattern that matches.
MergedToLastMatch(rep) ==
  LET pats == MergePatterns(rep)
      hit == {k \in 1..Len(pats) : pats[k][1]}
  IN  IF hit = {} THEN rep
      ELSE pats[CHOOSE k \in hit : \A j \in hit : k >= j][2]

\* The name apply_merge_patterns files a representative under.
MergedTo(rep) ==
  LET pats == MergePatterns(rep)
      hit == {k \in 1..Len(pats) : pats[k][1]}
  IN  IF hit = {} THEN rep
      ELSE pats[CHOOSE k \in hit : \A j \in hit : k <= j][2]

\* group_work_names on a collection of distinct names: representative ->
\* the names filed under it.
group_work_names(names) ==
  LET reps == {normalize_work_name(n) : n \in names \ {<<>>}} \ {<<>>}
  IN  [rep \in reps |->
         {n \in names \ {<<>>} : normalize_work_name(n) = rep}]

\* apply_merge_patterns
apply_merge_patterns(grouped) ==
  [m \in {MergedTo(rep) : rep \in DOMAIN grouped} |->
     UNION {grouped[rep] : rep \in {r \in DOMAIN grouped : MergedTo(r) = m}}]

\* A variant that counts the entries of the input list.
local_group_tasks_counting_entries(work_names, apply_merge) ==
  LET unique_names == {work_names[i] : i \in 1..Len(work_names)} \ {<<>>}
      grouped == group_work_names(unique_names)
      merged == IF apply_merge THEN apply_merge_patterns(grouped) ELSE grouped
  IN  [groups |-> merged,
       original_count |-> Len(work_names),
       grouped_count |-> Cardinality(DOMAIN merged)]

\* local_group_tasks(work_names, apply_merge); the groups are kept as
\* representative -> set of members (the code returns both sorted).
local_group_tasks(work_names, apply_merge) ==
  LET unique_names == {work_names[i] : i \in 1..Len(work_names)} \ {<<>>}
      grouped == group_work_names(unique_names)
      merged == IF apply_merge THEN apply_merge_patterns(grouped) ELSE grouped
  IN  [groups |-> merged,
       original_count |-> Cardinality(unique_names),
       grouped_count |-> Cardinality(DOMAIN merged)]

GroupNames ==
  {<<>>, <<"A">>, <<"(", "1", ")">>,
   kwDenwa \o kwTaiou,
   <<"T", "E", "L">> \o kwTaiou \o <<"fw(", "jDEN", "fw)">>,
   kwDenwa \o kwMail \o kwTaiou \o <<" ", "2">>,
   kwIdou \o <<"B">>,
   kwMeeting}

InitGroup ==
  /\ categories = DefaultCategories
  /\ keywords = <<>>
  /\ defaultSetting = DefaultCategorySetting
  /\ InitCaches
  /\ IdleUnit /\ IdleSub /\ IdleTargets /\ IdleRace /\ IdleCtl
  /\ arg \in TablesOf(GroupNames, MaxNames)
  /\ last = [op |-> "start"]

\* A call of local_group_tasks(arg, apply_merge).
LocalGroupTasks(apply_merge) ==
  /\ last.op = "start"
  /\ last' = [op |-> "local_group_tasks", apply_merge |-> apply_merge,
              result |-> local_group_tasks(arg, apply_merge)]
  /\ UNCHANGED <<arg, kwVars, unitVars, subVars, targetVars, raceVars, ctlVars>>

NextGroup == \E apply_merge \in BOOLEAN : LocalGroupTasks(apply_merge)

SpecGroup == InitGroup /\ [][NextGroup]_vars

RECURSIVE SumOfSizes(_, _)
SumOfSizes(groups, reps) ==
  IF reps = {} THEN 0
  ELSE LET r == CHOOSE x \in reps : TRUE
       IN  Cardinality(groups[r]) + SumOfSizes(groups, reps \ {r})

\* C8: the member lists of the groups local_group_tasks returns have, in
\* total, as many entries as the input has non-empty names, and every
\* non-empty input name is a member of exactly one group.
C8_GroupingConservation ==
  last.op = "local_group_tasks" =>
    LET groups == last.result.groups
        nonEmpty == {i \in 1..Len(arg) : arg[i] # <<>>}
    IN  /\ SumOfSizes(groups, DOMAIN groups) = Cardinality(nonEmpty)
        /\ \A i \in nonEmpty :
             Cardinality({r \in DOMAIN groups : arg[i] \in groups[r]}) = 1

\* The distinct entries of the input list.
DistinctNames == {arg[i] : i \in 1..Len(arg)}

\* C14 as stated: original_count is the number of distinct entries of the
\* input list, and grouped_count the number of groups returned.
C14_CountsAsStated ==
  last.op = "local_group_tasks" =>
    /\ last.result.original_count = Cardinality(DistinctNames)
    /\ last.result.grouped_count = Cardinality(DOMAIN last.result.groups)

\* C14: original_count is the number of distinct non-empty entries of the
\* input list; grouped_count is the number of groups returned, which without
\* the merge pass is the number of distinct non-empty normalized names.
C14_CountsNonEmptyNames ==
  last.op = "local_group_tasks" =>
    /\ last.result.original_count = Cardinality(DistinctNames \ {<<>>})
    /\ last.result.grouped_count = Cardinality(DOMAIN last.result.groups)
    /\ ~last.apply_merge =>
         last.result.grouped_count =
           Cardinality({normalize_work_name(n) : n \in DistinctNames} \ {<<>>})

\* The merge pass folded two distinct names of the input into one group.
C14_Witness ==
  /\ last.op = "local_group_tasks"
  /\ last.apply_merge
  /\ last.result.original_count = 2
  /\ last.result.grouped_count = 1

\* l is the name of the first pattern, in list order, that matches rep, or
\* rep itself when none does.
IsLabelOf(l, rep) ==
  LET pats == MergePatterns(rep)
  IN  \/ \E k \in 1..Len(pats) :
           /\ pats[k][1]
           /\ \A j \in 1..(k - 1) : ~pats[j][1]
           /\ l = pats[k][2]
      \/ (\A k \in 1..Len(pats) : ~pats[k][1]) /\ l = rep

ReductionCacheAfterGet ==
  IF reductionCache.built THEN reductionCache
  ELSE [built |-> TRUE,
        val |-> {categories[i].name :
                   i \in {j \in 1..Len(categories) :
                            categories[j].is_reduction_target}}]

\* TaskReductionTarget.get_cached_targets: the cache after the call.
TaskCacheAfterGet ==
  IF taskCache.built THEN taskCache
  ELSE [built |-> TRUE,
        val |-> {w \in DOMAIN taskTargets : taskTargets[w]}]

\* TaskReductionTarget.toggle_target
toggle_target(t, work_name) ==
  IF work_name \in DOMAIN t
  THEN [t EXCEPT ![work_name] = ~@]
  ELSE [w \in DOMAIN t \cup {work_name} |->
          IF w = work_name THEN TRUE ELSE t[w]]

\* TaskReductionTarget.bulk_set_targets
RECURSIVE bulk_set_targets(_, _, _, _)
bulk_set_targets(t, work_names, is_target, i) ==
  IF i > Len(work_names) THEN t
  ELSE bulk_set_targets(
         [w \in DOMAIN t \cup {work_names[i]} |->
            IF w = work_names[i] THEN is_target ELSE t[w]],
         work_names, is_target, i + 1)

\* toggle_task_reduction_target: 400 on an empty name, else toggle, commit
\* and clear the cache.
ToggleTaskReductionTarget(work_name) ==
  /\ IF work_name = <<>>
     THEN UNCHANGED targetVars
     ELSE /\ taskTargets' = toggle_target(taskTargets, work_name)
          /\ taskCache' = [built |-> FALSE, val |-> {}]
  /\ last' = [op |-> "toggle_task_reduction_target",
              status |-> IF work_name = <<>> THEN 400 ELSE 200]
  /\ UNCHANGED <<kwVars, unitVars, subVars>>

\* bulk_toggle_task_reduction_target: 400 on an empty list, else set every
\* name of the list, commit and clear the cache.
BulkToggleTaskReductionTarget(work_names, set_as_target) ==
  /\ IF work_names = <<>>
     THEN UNCHANGED targetVars
     ELSE /\ taskTargets' = bulk_set_targets(taskTargets, work_names,
                                             set_as_target, 1)
          /\ taskCache' = [built |-> FALSE, val |-> {}]
  /\ last' = [op |-> "bulk_toggle_task_reduction_target",
              status |-> IF work_names = <<>> THEN 400 ELSE 200]
  /\ UNCHANGED <<kwVars, unitVars, subVars>>

\* api_update_category with a body that holds is_reduction_target: assign,
\* commit, return.
ApiUpdateCategory(id, is_reduction_target) ==
  /\ id \in 1..Len(categories)
  /\ categories' = [categories EXCEPT ![id].is_reduction_target =
                                        is_reduction_target]
  /\ last' = [op |-> "api_update_category"]
  /\ UNCHANGED <<keywords, defaultSetting, kwCache, reductionCache,
                 defaultCache, unitVars, subVars, targetVars>>

\* The five places that decide whether a work item is a reduction target.
ReductionSites ==
  {"get_summary", "get_ranking", "get_weekly_trend", "get_reduction_progress",
   "get_staff_comparison"}

\* The loop body the five handlers share, on the aggregated row
\* (category2, work_name) held in arg: classify the row, ask both flags, or
\* them.  get_summary first asks the unit type and decides for rows on
\* hours only; get_ranking asks the unit type and the sub-category after
\* deciding.
DecideReduction(site) ==
  \E rev \in BOOLEAN, urev \in BOOLEAN, srev \in BOOLEAN :
    LET cat2 == arg[1]
        work_name == arg[2]
        asksUnit == site \in {"get_summary", "get_ranking"} /\ work_name # <<>>
        ucache == IF asksUnit THEN UnitCacheAfterGet(urev) ELSE unitCache
        unit_type == IF asksUnit THEN UnitTypeResult(ucache.val, work_name)
                     ELSE "hours"
        scache == IF site = "get_ranking" /\ work_name # <<>>
                  THEN SubCacheAfterGet(srev) ELSE subCache
        decides == ~(site = "get_summary" /\ unit_type = "count")
        kcache == KeywordCacheAfterGet(rev)
        texts == TextsToCheck(cat2, work_name)
        usesDefault == texts = <<>> \/ FirstKeywordHit(kcache.val, texts) = 0
        dcache == IF usesDefault THEN DefaultCacheAfterGet ELSE defaultCache
        display_cat == AutoCategorizeResult(kcache.val, cat2, work_name, dcache.val)
        rcache == ReductionCacheAfterGet
        tcache == IF work_name = <<>> THEN taskCache ELSE TaskCacheAfterGet
        is_category_reduction == display_cat \in rcache.val
        is_task_reduction == work_name # <<>> /\ work_name \in tcache.val
    IN  /\ unitCache' = ucache
        /\ subCache' = scache
        /\ IF decides
           THEN /\ kwCache' = kcache
                /\ defaultCache' = dcache
                /\ reductionCache' = rcache
                /\ taskCache' = tcache
                /\ last' = [op |-> site, decided |-> TRUE,
                            display_cat |-> display_cat,
                            is_reduction |->
                              is_category_reduction \/ is_task_reduction]
           ELSE /\ UNCHANGED <<kwCache, defaultCache, reductionCache, taskCache>>
                /\ last' = [op |-> site, decided |-> FALSE]
        /\ UNCHANGED <<categories, keywords, defaultSetting, unitRules,
                       subRules, taskTargets>>

\* Work rows: one that a rule files under an unflagged category, one under
\* a flagged category, one without a work name, one counted in pieces.
ReductionItems ==
  {<<<<>>, <<"m">>>>, <<<<>>, <<"t">>>>, <<<<"m">>, <<>>>>,
   <<<<>>, kwNyuryoku>>}

ReductionNames == {<<>>, <<"m">>}

ReductionLists == {<<>>, <<<<"m">>>>, <<<<>>, <<"t">>>>}

ReductionCategoryIds == {2, 4}

InitReduction ==
  /\ categories = DefaultCategories
  /\ keywords = <<KeywordRow(<<"M">>, 2, "contains", 10, TRUE),
                  KeywordRow(<<"T">>, 4, "contains", 10, TRUE)>>
  /\ defaultSetting = DefaultCategorySetting
  /\ InitCaches
  /\ unitRules = <<UnitRow(kwNyuryoku, "count", "suffix", 15)>>
  /\ unitCache = NoCache
  /\ IdleSub /\ IdleTargets /\ IdleRace /\ IdleCtl
  /\ arg \in ReductionItems
  /\ last = [op |-> "start"]

ReductionStep(A) == A /\ UNCHANGED <<raceVars, axis, arg>>

NextReduction ==
  \/ \E site \in ReductionSites :
       ReductionStep(DecideReduction(site) /\ UNCHANGED ops)
  \/ \E w \in ReductionNames :
       ReductionStep(Mutating(ToggleTaskReductionTarget(w)))
  \/ \E l \in ReductionLists, flag \in BOOLEAN :
       ReductionStep(Mutating(BulkToggleTaskReductionTarget(l, flag)))
  \/ \E id \in ReductionCategoryIds, flag \in BOOLEAN :
       ReductionStep(Mutating(ApiUpdateCategory(id, flag)))

SpecReduction == InitReduction /\ [][NextReduction]_vars

\* C9: wherever a handler decides whether a work row is a reduction target,
\* the row is one exactly when the category it resolves to is flagged in
\* display_categories or its work name has a row in task_reduction_targets
\* with the flag on.
C9_ReductionTargetIsEitherFlag ==
  (last.op \in ReductionSites /\ last.decided) =>
    LET id == CategoryIdByName(categories, last.display_cat)
        categoryFlag == id # 0 /\ categories[id].is_reduction_target
        taskFlag == arg[2] \in DOMAIN taskTargets /\ taskTargets[arg[2]]
    IN  last.is_reduction = (categoryFlag \/ taskFlag)

\* ------------------------------------------------- categorisation preview
\* config.AI_MAX_BATCH_SIZE
AI_MAX_BATCH_SIZE == 500

\* The confidence of a fallback suggestion, 0.5, in hundredths.
FallbackConfidence == 50

\* What the handler meets outside the process during the LLM step: the
\* configured provider name, whether an API key is set, whether the client
\* package can be imported, how the API call ends, and the kind of text a
\* completed call returns.
ApiOutcomes == {"text", "RateLimitError", "AuthenticationError", "Timeout"}

TextKinds ==
  {"results",            \* a JSON list of objects with usable fields
   "not_json",           \* text json.loads rejects
   "truncated_object",   \* an object cut off before its closing brace
   "object",             \* one JSON object instead of a list
   "list_of_numbers",    \* a JSON list whose elements are not objects
   "null",               \* the JSON value null
   "bad_confidence"}     \* a list of objects whose confidence is not a number

LlmEnvs ==
  [provider : {"anthropic", "unknown"}, api_key : BOOLEAN, package : BOOLEAN,
   api : ApiOutcomes, text : TextKinds]

\* The categories a usable response names, one per result.
LlmResults == TablesOf({"MTG", "Unlisted"}, MaxItems)

\* get_ai_provider, _make_request, _parse_json_response and the loop of
\* categorize_work_items, in the order the code runs them: the exception
\* that leaves provider.categorize_work_items, or "none".
LlmStepRaises(env) ==
  IF env.provider # "anthropic" THEN "ValueError"
  ELSE IF ~env.api_key THEN "AIAuthenticationError"
  ELSE IF ~env.package THEN "UnboundLocalError"
  ELSE IF env.api = "RateLimitError" THEN "AIRateLimitError"
  ELSE IF env.api = "AuthenticationError" THEN "AIAuthenticationError"
  ELSE IF env.api = "Timeout" THEN "AIProviderError"
  ELSE IF env.text = "not_json" THEN "AIProviderError"
  ELSE IF env.text \in {"object", "list_of_numbers"} THEN "AttributeError"
  ELSE IF env.text = "null" THEN "TypeError"
  ELSE IF env.text = "bad_confidence" THEN "ValueError"
  ELSE "none"

\* The subclasses of AIProviderError, which the handler catches.
AIProviderErrors ==
  {"AIProviderError", "AIRateLimitError", "AIAuthenticationError"}

\* category_map.get(name): the id, 0 for None.
CategoryMapGet(name) == CategoryIdByName(categories, name)

\* The suggestions of the try block: one per result the provider returned
\* (none when the parsed value is the empty object).
AiSuggestions(env, results) ==
  IF env.text = "truncated_object" THEN <<>>
  ELSE [i \in 1..Len(results) |->
          [item_index |-> i - 1, suggested_category |-> results[i],
           suggested_category_id |-> CategoryMapGet(results[i]),
           confidence |-> 85]]

\* The suggestions of the except block: auto_categorize on every item.
FallbackSuggestions(items, kws, default) ==
  [i \in 1..Len(items) |->
     LET cat == AutoCategorizeResult(kws, items[i].category2,
                                     items[i].work_name, default)
     IN  [item_index |-> i - 1, suggested_category |-> cat,
          suggested_category_id |-> CategoryMapGet(cat),
          confidence |-> FallbackConfidence]]

\* preview_categorization on the items held in arg.
PreviewCategorization(env, results) ==
  \E rev \in BOOLEAN :
    LET items == arg
        raised == LlmStepRaises(env)
        kcache == KeywordCacheAfterGet(rev)
        usesDefault ==
          \E i \in 1..Len(items) :
            LET texts == TextsToCheck(items[i].category2, items[i].work_name)
            IN  texts = <<>> \/ FirstKeywordHit(kcache.val, texts) = 0
        dcache == IF usesDefault THEN DefaultCacheAfterGet ELSE defaultCache
    IN  IF items = <<>> \/ Len(items) > AI_MAX_BATCH_SIZE
        THEN /\ last' = [op |-> "preview_categorization", env |-> env,
                         status |-> 400, suggestions |-> <<>>,
                         fallback |-> FALSE]
             /\ UNCHANGED kwVars
        ELSE IF raised = "none"
        THEN /\ last' = [op |-> "preview_categorization", env |-> env,
                         status |-> 200,
                         suggestions |-> AiSuggestions(env, results),
                         fallback |-> FALSE]
             /\ UNCHANGED kwVars
        ELSE IF raised \in AIProviderErrors
        THEN /\ kwCache' = kcache
             /\ defaultCache' = dcache
             /\ last' = [op |-> "preview_categorization", env |-> env,
                         status |-> 200,
                         suggestions |->
                           FallbackSuggestions(items, kcache.val, dcache.val),
                         fallback |-> TRUE]
             /\ UNCHANGED <<categories, keywords, defaultSetting, reductionCache>>
        ELSE /\ last' = [op |-> "preview_categorization", env |-> env,
                         status |-> 500, suggestions |-> <<>>,
                         fallback |-> FALSE]
             /\ UNCHANGED kwVars

PreviewItems ==
  {[category2 |-> <<>>, work_name |-> <<"m">>],
   [category2 |-> <<"t">>, work_name |-> <<>>]}

InitPreview ==
  /\ categories = DefaultCategories
  /\ keywords = <<KeywordRow(<<"M">>, 2, "contains", 10, TRUE)>>
  /\ defaultSetting = DefaultCategorySetting
  /\ InitCaches
  /\ IdleUnit /\ IdleSub /\ IdleTargets /\ IdleRace /\ IdleCtl
  /\ arg \in TablesOf(PreviewItems, MaxItems)
  /\ last = [op |-> "start"]

NextPreview ==
  \E env \in LlmEnvs, results \in LlmResults :
    /\ last.op = "start"
    /\ PreviewCategorization(env, results)
    /\ UNCHANGED <<unitVars, subVars, targetVars, raceVars, ctlVars, arg>>

SpecPreview == InitPreview /\ [][NextPreview]_vars

\* The LLM step failed: the provider is not available, the call ended in an
\* error, or the text it returned is not a list of usable results.
LlmStepFailed(env) ==
  \/ env.provider # "anthropic"
  \/ ~env.api_key
  \/ ~env.package
  \/ env.api # "text"
  \/ env.text # "results"

\* C10: when the LLM step of preview_categorization fails, the request
\* still succeeds with the fallback indicator and one suggestion per item,
\* each the rule-based category with confidence 0.5.
C10_LlmFailureFallsBack ==
  (last.op = "preview_categorization" /\ arg # <<>>
   /\ LlmStepFailed(last.env)) =>
    /\ last.status = 200
    /\ last.fallback
    /\ Len(last.suggestions) = Len(arg)
    /\ \A i \in 1..Len(arg) :
         /\ last.suggestions[i].confidence = FallbackConfidence
         /\ \E rev \in BOOLEAN :
              last.suggestions[i].suggested_category =
                AutoCategorizeResult(KeywordSnapshot(keywords, categories, rev),
                                     arg[i].category2, arg[i].work_name,
                                     defaultSetting)

\* ------------------------------------------------------ seeding the defaults
\* seed_default_rules run, up to MaxOps times in a row, on a table that
\* already holds rows, some with the natural key of a default and other
\* attributes.  The category named core work may have been renamed.
SeedUnitRows ==
  AdmUnitRows \cup {UnitRow(kwNyuryoku, "count", "suffix", 15)}

SeedSubRows ==
  AdmSubRows \cup {SubRow("CustomerFacing", kwTaiou, "contains", 30, 2)}

InitSeed ==
  /\ \/ categories = DefaultCategories
     \/ categories = [DefaultCategories EXCEPT ![1].name = "Renamed"]
  /\ keywords = <<>>
  /\ defaultSetting = DefaultCategorySetting
  /\ InitCaches
  /\ axis \in {"unit", "sub"}
  /\ unitRules \in TablesOf(SeedUnitRows, MaxRules)
  /\ subRules \in TablesOf(SeedSubRows, MaxRules)
  /\ axis = "unit" => subRules = <<>>
  /\ axis = "sub" => unitRules = <<>>
  /\ unitCache = NoCache /\ subCache = NoCache
  /\ IdleTargets /\ IdleRace /\ IdleArg
  /\ ops = 0
  /\ last = [op |-> "start"]

NextSeed ==
  \/ UnitAxis(Mutating(ApiSeedUnitRules))
  \/ SubAxis(Mutating(ApiSeedSubCategoryRules))

SpecSeed == InitSeed /\ [][NextSeed]_vars

\* The rows of table t with the natural key (the fields in key) of row d.
WithKeyOf(t, d, key) == {i \in 1..Len(t) : \A f \in key : t[i][f] = d[f]}

\* Going from table t to table u added, after the rows of t, one row for
\* each default whose natural key no row of t has, and nothing else.
AddedMissingDefaults(t, u, defaults, key) ==
  LET missing == {k \in 1..Len(defaults) : WithKeyOf(t, defaults[k], key) = {}}
  IN  /\ Len(u) = Len(t) + Cardinality(missing)
      /\ \A k \in missing :
           \E i \in (Len(t) + 1)..Len(u) : u[i] = defaults[k]

\* C11: a run of seed_default_rules inserts a default only when no row has
\* its natural key, and a run that follows another run leaves the table as
\* the first run left it.
C11_SeedIdempotent ==
  [][/\ last'.op = "api_seed_unit_rules" =>
          /\ AddedMissingDefaults(unitRules, unitRules', DefaultUnitRules,
                                  {"keyword"})
          /\ last.op = "api_seed_unit_rules" => unitRules' = unitRules
     /\ last'.op = "api_seed_sub_category_rules" =>
          /\ AddedMissingDefaults(
               subRules, subRules',
               DefaultSubRules(CategoryIdByName(categories, "CoreWork")),
               {"keyword", "sub_category_name"})
          /\ last.op = "api_seed_sub_category_rules" => subRules' = subRules
    ]_vars

\* The defaults were seeded twice on a table that held a row with a
\* default's natural key.
C11_Witness ==
  /\ ops = 2
  /\ \/ /\ last.op = "api_seed_unit_rules"
        /\ unitRules[1].keyword = kwTaiou
        /\ Len(unitRules) = Len(DefaultUnitRules)
     \/ /\ last.op = "api_seed_sub_category_rules"
        /\ subRules[1].keyword = kwTaiou
        /\ subRules[1].sub_category_name = "CustomerFacing"
        /\ Len(subRules) = Len(DefaultSubRules(1))

\* C12: a run of seed_default_rules leaves every row that existed before
\* it in place and unchanged in every field.
C12_SeedKeepsExistingRows ==
  [][/\ last'.op = "api_seed_unit_rules" =>
          /\ Len(unitRules') >= Len(unitRules)
          /\ \A i \in 1..Len(unitRules) : unitRules'[i] = unitRules[i]
     /\ last'.op = "api_seed_sub_category_rules" =>
          /\ Len(subRules') >= Len(subRules)
          /\ \A i \in 1..Len(subRules) : subRules'[i] = subRules[i]
    ]_vars

\* After a run, a row that was there before still differs from the default
\* with its natural key.
C12_Witness ==
  \/ /\ last.op = "api_seed_unit_rules"
     /\ unitRules[1] = UnitRow(kwTaiou, "count", "suffix", 10)
     /\ Len(unitRules) > 2
  \/ /\ last.op = "api_seed_sub_category_rules"
     /\ subRules[1] = SubRow("CustomerFacing", kwTaiou, "contains", 30, 2)
     /\ Len(subRules) > 2

\* ------------------------------------------------------- letter case
\* One active rule on one axis, its keyword written in some letter case, and
\* calls of the classifier of that axis on texts in some letter case.
SuffixMatchTypes == {"contains", "exact", "suffix"}

CaseKeywords == {<<"T", "e">>, <<"t", "E">>, <<"fwT">>}

CaseTexts ==
  UNION {[1..n -> {"T", "t", "E", "x"}] : n \in 1..(MaxLen - 1)}
    \cup {<<"fwt">>, <<"x", "fwT">>, <<"fwt", "x">>}

InitCase ==
  /\ categories = DefaultCategories
  /\ defaultSetting = DefaultCategorySetting
  /\ InitCaches
  /\ unitCache = NoCache /\ subCache = NoCache
  /\ axis \in {"keyword", "unit", "sub"}
  /\ \E k \in CaseKeywords :
       /\ IF axis = "keyword"
          THEN \E m \in KeywordMatchTypes :
                 keywords = <<KeywordRow(k, 2, m, 10, TRUE)>>
          ELSE keywords = <<>>
       /\ IF axis = "unit"
          THEN \E m \in SuffixMatchTypes :
                 unitRules = <<UnitRow(k, "count", m, 10)>>
          ELSE unitRules = <<>>
       /\ IF axis = "sub"
          THEN \E m \in SuffixMatchTypes :
                 subRules = <<SubRow("Input", k, m, 10, 0)>>
          ELSE subRules = <<>>
  /\ IdleTargets /\ IdleRace /\ IdleArg
  /\ ops = 0
  /\ last = [op |-> "start"]

\* Each run makes one call.
CaseCall(A) == last.op = "start" /\ A /\ UNCHANGED ops

NextCase ==
  \/ KeywordAxis(\E text \in CaseTexts : CaseCall(AutoCategorize(<<>>, text)))
  \/ KeywordAxis(\E text \in CaseTexts : CaseCall(AutoCategorize(text, <<>>)))
  \/ UnitAxis(\E text \in CaseTexts : CaseCall(GetUnitType(text)))
  \/ SubAxis(\E text \in CaseTexts, parent \in {0, 1} :
                CaseCall(GetSubCategory(text, parent)))

SpecCase == InitCase /\ [][NextCase]_vars

\* The predicate of a match type on a text and a keyword.
PredicateHolds(match_type, text, keyword) ==
  \/ match_type = "exact" /\ text = keyword
  \/ match_type = "startswith" /\ StartsWith(text, keyword)
  \/ match_type = "contains" /\ Contains(text, keyword)
  \/ match_type = "suffix" /\ EndsWith(text, keyword)

\* C13: on each axis the one rule of the table decides the result of a call
\* exactly when its predicate holds of the lower-cased text and the
\* lower-cased keyword; otherwise the call returns the default of the axis.
C13_MatchIgnoresCase ==
  /\ last.op = "auto_categorize" =>
       LET text == IF last.work_name = <<>> THEN last.source_cat
                   ELSE last.work_name
       IN  (last.result = categories[keywords[1].display_category_id].name)
             <=> PredicateHolds(keywords[1].match_type, Lower(text),
                                Lower(keywords[1].keyword))
  /\ last.op = "get_unit_type" =>
       (last.result = unitRules[1].unit_type)
         <=> PredicateHolds(unitRules[1].match_type, Lower(last.work_name),
                            Lower(unitRules[1].keyword))
  /\ last.op = "get_sub_category" =>
       (last.result = subRules[1].sub_category_name)
         <=> PredicateHolds(subRules[1].match_type, Lower(last.work_name),
                            Lower(subRules[1].keyword))

\* A suffix rule whose keyword is written in another letter case than the
\* end of the text decided the unit type.
C13_Witness ==
  /\ last.op = "get_unit_type"
  /\ unitRules[1].match_type = "suffix"
  /\ unitRules[1].keyword = <<"T", "e">>
  /\ last.work_name = <<"x", "t", "E">>
  /\ last.result = "count"

\* ------------------------------------------------------ deleting a category
\* display_categories keeps the id of a row for the life of the row, and the
\* keyword rows refer to it by id: the place of a deleted row is kept, holding
\* DeletedCategory.
DeletedCategory == [name |-> "", is_reduction_target |-> FALSE]

\* category.keywords: the keyword rows whose display_category_id is id.
KeywordsOfCategory(id) ==
  {k \in 1..Len(keywords) : keywords[k].display_category_id = id}

\* A handler that deletes the category without counting its keywords.
ApiDeleteCategoryUncounted(id) ==
  /\ categories' = [categories EXCEPT ![id] = DeletedCategory]
  /\ last' = [op |-> "api_delete_category", id |-> id, status |-> 200]
  /\ UNCHANGED <<keywords, defaultSetting, kwCache, reductionCache,
                 defaultCache>>

\* api_delete_category: get_or_404, the count of the keywords, delete, commit.
ApiDeleteCategory(id) ==
  IF id \notin 1..Len(categories) \/ categories[id] = DeletedCategory
  THEN /\ last' = [op |-> "api_delete_category", id |-> id, status |-> 404]
       /\ UNCHANGED kwVars
  ELSE IF Cardinality(KeywordsOfCategory(id)) > 0
  THEN /\ last' = [op |-> "api_delete_category", id |-> id, status |-> 400]
       /\ UNCHANGED kwVars
  ELSE /\ categories' = [categories EXCEPT ![id] = DeletedCategory]
       /\ last' = [op |-> "api_delete_category", id |-> id, status |-> 200]
       /\ UNCHANGED <<keywords, defaultSetting, kwCache, reductionCache,
                      defaultCache>>

InitCategory ==
  /\ categories = DefaultCategories
  /\ keywords \in TablesOf(AdmKeywordRows, MaxRules)
  /\ defaultSetting = DefaultCategorySetting
  /\ InitCaches
  /\ IdleUnit /\ IdleSub /\ IdleTargets /\ IdleRace /\ IdleCtl /\ IdleArg
  /\ last = [op |-> "start"]

NextCategory ==
  \/ KeywordAxis(\E id \in 1..(Len(categories) + 1) :
                   Mutating(ApiDeleteCategory(id)))
  \/ KeywordAxis(\E id \in 1..MaxRules : Mutating(ApiDeleteKeyword(id)))
  \/ KeywordAxis(\E row \in AdmKeywordRows :
                   Len(keywords) < MaxRules /\ Mutating(ApiCreateKeyword(row)))

SpecCategory == InitCategory /\ [][NextCategory]_vars

\* C15: a call of api_delete_category on a category that keyword rows refer
\* to answers with an error (400, or 404 when the id has no category) and
\* changes neither table, and a call that removes a category finds no
\* keyword row referring to it.
C15_DeleteBlockedWhileReferenced ==
  [][last'.op = "api_delete_category" =>
       /\ KeywordsOfCategory(last'.id) # {} =>
            /\ last'.status \in {400, 404}
            /\ last'.status = 400 <=>
                 (last'.id \in 1..Len(categories)
                    /\ categories[last'.id] # DeletedCategory)
            /\ categories' = categories
            /\ keywords' = keywords
       /\ categories' # categories =>
            /\ KeywordsOfCategory(last'.id) = {}
            /\ last'.status = 200
            /\ keywords' = keywords
    ]_vars

\* The deletion of a category was refused that only an inactive keyword row
\* refers to.
C15_Witness ==
  /\ last.op = "api_delete_category"
  /\ last.status = 400
  /\ KeywordsOfCategory(last.id) # {}
  /\ \A k \in KeywordsOfCategory(last.id) : ~keywords[k].is_active
  /\ categories = DefaultCategories

\* ------------------------------------------------- unsupported match types
\* Rules are created through the admin handlers with any match_type the
\* request body holds, and the classifiers are called.
RequestMatchTypes == KeywordMatchTypes \cup SuffixMatchTypes \cup {"regex"}

InitRequest ==
  /\ categories = DefaultCategories
  /\ keywords = <<>>
  /\ defaultSetting = DefaultCategorySetting
  /\ InitCaches
  /\ IdleUnit /\ IdleSub /\ IdleTargets /\ IdleRace /\ IdleArg
  /\ axis \in {"keyword", "unit"}
  /\ ops = 0
  /\ last = [op |-> "start"]

NextRequest ==
  \/ KeywordAxis(\E m \in RequestMatchTypes, p \in ClsPriorities :
                   Mutating(ApiCreateKeyword(
                              KeywordRow(<<"M">>, 2, m, p, TRUE))))
  \/ KeywordAxis(\E text \in ClsTexts :
                   AutoCategorize(<<>>, text) /\ UNCHANGED ops)
  \/ UnitAxis(\E m \in RequestMatchTypes, p \in ClsPriorities :
                Mutating(ApiCreateUnitRule(UnitRow(<<"M">>, "count", m, p))))
  \/ UnitAxis(\E text \in ClsTexts : GetUnitType(text) /\ UNCHANGED ops)

SpecRequest == InitRequest /\ [][NextRequest]_vars

\* C16: a classifier computes its result only from a rule list in which every
\* rule has a match_type its axis supports.
C16_MalformedRuleRejected ==
  /\ last.op = "auto_categorize" =>
       \A k \in 1..Len(last.rules) :
         last.rules[k].match_type \in KeywordMatchTypes
  /\ last.op = "get_unit_type" =>
       \A k \in 1..Len(last.rules) :
         last.rules[k].match_type \in SuffixMatchTypes

\* ---------------------------------------------------------- task families
kwKanri == <<"jKAN", "jRI">>
kwKids == <<"kKI", "kTSU", "kZU">>
kwSetsumeikai == <<"jSETSU", "jMEI", "jKAI">>

\* SUFFIX_TO_GROUP, in list order.
SUFFIX_TO_GROUP ==
  <<<<kwNyuryoku, "InputFamily">>, <<kwTaiou, "ResponseFamily">>,
    <<kwSakusei, "CreationFamily">>, <<kwKakunin, "ConfirmationFamily">>,
    <<kwKanri, "ManagementFamily">>, <<kwCheck, "CheckFamily">>,
    <<kwShori, "ProcessingFamily">>, <<kwTouroku, "RegistrationFamily">>,
    <<kwHacchu, "OrderingFamily">>, <<kwTehai, "ArrangementFamily">>>>

\* CONTAINS_TO_GROUP, in list order.
CONTAINS_TO_GROUP ==
  <<<<kwMTG, "MTGFamily">>, <<kwMeeting, "MTGFamily">>,
    <<kwKaigi, "MTGFamily">>, <<kwUchiawase, "MTGFamily">>,
    <<kwUchiawase2, "MTGFamily">>, <<kwMendan, "InterviewFamily">>,
    <<kwIdou, "TravelFamily">>, <<kwKids, "KidsFamily">>,
    <<kwKenshu, "TrainingFamily">>, <<kwSetsumeikai, "BriefingFamily">>>>

\* The name extract_task_group tests: brackets removed, stripped, a trailing
\* letter removed, stripped.
FamilyNormalized(work_name) ==
  Strip(DropTrailingLetter(Strip(RemoveBracketed(work_name, 1))))

\* A variant that tests the keywords before the suffixes.
extract_task_group_keywords_first(work_name) ==
  IF work_name = <<>> THEN <<"Other", <<>>>>
  ELSE
    LET normalized == FamilyNormalized(work_name)
        s == FirstFrom(LAMBDA k : EndsWith(normalized, SUFFIX_TO_GROUP[k][1]),
                       1, Len(SUFFIX_TO_GROUP))
        c == FirstFrom(LAMBDA k :
                         \/ Contains(normalized, CONTAINS_TO_GROUP[k][1])
                         \/ Contains(work_name, CONTAINS_TO_GROUP[k][1]),
                       1, Len(CONTAINS_TO_GROUP))
    IN  IF c # 0
        THEN IF CONTAINS_TO_GROUP[c][2] = "MTGFamily"
             THEN <<"MTGFamily", kwMTG>>
             ELSE <<CONTAINS_TO_GROUP[c][2], normalized>>
        ELSE IF s # 0 THEN <<SUFFIX_TO_GROUP[s][2], normalized>>
        ELSE <<"Other", normalized>>

\* extract_task_group: the pair (family, representative name).
extract_task_group(work_name) ==
  IF work_name = <<>> THEN <<"Other", <<>>>>
  ELSE
    LET normalized == FamilyNormalized(work_name)
        s == FirstFrom(LAMBDA k : EndsWith(normalized, SUFFIX_TO_GROUP[k][1]),
                       1, Len(SUFFIX_TO_GROUP))
        c == FirstFrom(LAMBDA k :
                         \/ Contains(normalized, CONTAINS_TO_GROUP[k][1])
                         \/ Contains(work_name, CONTAINS_TO_GROUP[k][1]),
                       1, Len(CONTAINS_TO_GROUP))
    IN  IF s # 0 THEN <<SUFFIX_TO_GROUP[s][2], normalized>>
        ELSE IF c # 0
        THEN IF CONTAINS_TO_GROUP[c][2] = "MTGFamily"
             THEN <<"MTGFamily", kwMTG>>
             ELSE <<CONTAINS_TO_GROUP[c][2], normalized>>
        ELSE <<"Other", normalized>>

\* Names made of up to two words of the tables (or a word of neither) and
\* an ending: nothing, a letter, a bracketed word, a space.
FamilyWords ==
  {<<>>, <<"jDEN">>, kwNyuryoku, kwTaiou, kwKanri, kwMTG, kwKaigi, kwIdou,
   kwKenshu}

FamilyEndings ==
  {<<>>, <<"A">>, <<" ", "B">>, <<"(">> \o kwKaigi \o <<")">>,
   <<"fw(">> \o kwTaiou \o <<"fw)">>, <<" ">>}

FamilyNames ==
  {a \o b \o e : a \in FamilyWords, b \in FamilyWords, e \in FamilyEndings}

InitFamily ==
  /\ categories = DefaultCategories
  /\ keywords = <<>>
  /\ defaultSetting = DefaultCategorySetting
  /\ InitCaches
  /\ IdleUnit /\ IdleSub /\ IdleTargets /\ IdleRace /\ IdleCtl
  /\ arg \in FamilyNames
  /\ last = [op |-> "start"]

\* extract_task_group(arg)
ExtractTaskGroup ==
  /\ last.op = "start"
  /\ last' = [op |-> "extract_task_group", work_name |-> arg,
              result |-> extract_task_group(arg)]
  /\ UNCHANGED <<arg, kwVars, unitVars, subVars, targetVars, raceVars,
                 ctlVars>>

NextFamily == ExtractTaskGroup

SpecFamily == InitFamily /\ [][NextFamily]_vars

\* The entries of a table whose keyword satisfies Test.
EntriesOf(table, Test(_)) == {k \in 1..Len(table) : Test(table[k][1])}

\* C20: the family of a name is that of the first suffix of the suffix table
\* that ends the stripped name; failing that, that of the first keyword of
\* the substring table that occurs in the stripped name or in the name as
\* given, the representative of a meeting family being MTG; failing both,
\* the family is Other.  The representative is otherwise the stripped name.
C20_SuffixTierThenSubstringTier ==
  (last.op = "extract_task_group" /\ last.work_name # <<>>) =>
    LET name == last.work_name
        stripped == FamilyNormalized(name)
        S == EntriesOf(SUFFIX_TO_GROUP, LAMBDA kw : EndsWith(stripped, kw))
        C == EntriesOf(CONTAINS_TO_GROUP,
                       LAMBDA kw : Contains(stripped, kw) \/ Contains(name, kw))
        first(X) == CHOOSE k \in X : \A j \in X : k <= j
    IN  /\ S # {} =>
             last.result = <<SUFFIX_TO_GROUP[first(S)][2], stripped>>
        /\ (S = {} /\ C # {}) =>
             /\ last.result[1] = CONTAINS_TO_GROUP[first(C)][2]
             /\ last.result[2] = IF last.result[1] = "MTGFamily" THEN kwMTG
                                  ELSE stripped
        /\ (S = {} /\ C = {}) => last.result = <<"Other", stripped>>

\* A name that holds a meeting keyword and ends in a suffix of the suffix
\* table went to the family of the suffix.
C20_Witness ==
  /\ last.op = "extract_task_group"
  /\ last.work_name = kwMTG \o kwTaiou \o <<" ", "B">>
  /\ last.result = <<"ResponseFamily", kwMTG \o kwTaiou>>

\* ------------------------------------------------------- grouped ranking
\* Hours are counted in hundredths of an hour.  round(x, 1): the nearest
\* tenth of an hour, a tie going to the even tenth.
Round1(x) ==
  LET down == x - (x % 10)
  IN  IF x % 10 < 5 THEN down
      ELSE IF x % 10 > 5 THEN down + 10
      ELSE IF (down \div 10) % 2 = 0 THEN down ELSE down + 10

\* The key (family, normalized name) of a ranking row.
RankingKey(item) == extract_task_group(item.work_name)

\* A list of keys that holds the key of every row, repeated or not.
RECURSIVE RankingKeysRepeated(_, _, _)
RankingKeysRepeated(items, i, seen) ==
  IF i > Len(items) THEN seen
  ELSE RankingKeysRepeated(items, i + 1, Append(seen, RankingKey(items[i])))

\* The keys of the groups dictionary, in the order of insertion.
RECURSIVE RankingKeys(_, _, _)
RankingKeys(items, i, seen) ==
  IF i > Len(items) THEN seen
  ELSE IF \E k \in 1..Len(seen) : seen[k] = RankingKey(items[i])
       THEN RankingKeys(items, i + 1, seen)
       ELSE RankingKeys(items, i + 1, Append(seen, RankingKey(items[i])))

\* The sum of field f over the rows of items at the positions in I.
RECURSIVE SumField(_, _, _)
SumField(items, I, f) ==
  IF I = {} THEN 0
  ELSE LET i == CHOOSE x \in I : TRUE
       IN  items[i][f] + SumField(items, I \ {i}, f)

\* sorted(rows, key=lambda x: -x[f]): descending in f, rows with equal f in
\* the order they had.
SortedDescending(rows, f) ==
  LET place(i) == 1 + Cardinality({j \in 1..Len(rows) :
                                     \/ rows[j][f] > rows[i][f]
                                     \/ rows[j][f] = rows[i][f] /\ j < i})
  IN  [p \in 1..Len(rows) |-> rows[CHOOSE i \in 1..Len(rows) : place(i) = p]]

\* The rows of items at the positions in I, in input order.
RECURSIVE RowsAt(_, _, _)
RowsAt(items, I, i) ==
  IF i > Len(items) THEN <<>>
  ELSE (IF i \in I THEN <<items[i]>> ELSE <<>>) \o RowsAt(items, I, i + 1)

\* The category of the last member, in input order, whose category is not
\* empty.
GroupCategoryOfLast(items, I) ==
  LET tagged == {i \in I : items[i].category # ""}
  IN  IF tagged = {} THEN ""
      ELSE items[CHOOSE i \in tagged : \A j \in tagged : i >= j].category

\* The category the loop leaves in a group: that of the first member, in
\* input order, whose category is not empty.
GroupCategory(items, I) ==
  LET tagged == {i \in I : items[i].category # ""}
  IN  IF tagged = {} THEN ""
      ELSE items[CHOOSE i \in tagged : \A j \in tagged : i <= j].category

\* The entry of the result for one key.
RankingGroup(items, key) ==
  LET I == {i \in 1..Len(items) : RankingKey(items[i]) = key}
  IN  [group_name      |-> key[1],
       normalized_name |-> key[2],
       total_hours     |-> Round1(SumField(items, I, "hours")),
       total_cost      |-> SumField(items, I, "cost"),
       total_quantity  |-> SumField(items, I, "quantity"),
       category        |-> GroupCategory(items, I),
       member_count    |-> Cardinality(I),
       members         |-> SortedDescending(RowsAt(items, I, 1), "hours")]

\* A variant that leaves the list of groups in the order of insertion.
group_ranking_by_task_group_unsorted(ranking_items) ==
  LET keys == RankingKeys(ranking_items, 1, <<>>)
  IN  [k \in 1..Len(keys) |-> RankingGroup(ranking_items, keys[k])]

\* group_ranking_by_task_group
group_ranking_by_task_group(ranking_items) ==
  LET keys == RankingKeys(ranking_items, 1, <<>>)
  IN  SortedDescending(
        [k \in 1..Len(keys) |-> RankingGroup(ranking_items, keys[k])],
        "total_hours")

\* The rows of a ranking: the name was '(unset)' for a record without a name
\* (or is empty, for a caller that passes the name as stored), two names
\* share a key, hours are rounded to a tenth.
RankingNames ==
  {<<>>, <<"(", "jMI", "jSETSUb", "jTEI", ")">>, kwDenwa \o kwTaiou,
   kwDenwa \o kwTaiou \o <<"fw(", "jDEN", "fw)">>, kwMTG \o <<"jDEN">>}

RankingHours == {Round1(104), Round1(296)}

RankingCosts == {5}

\* The category of a row is the result of auto_categorize: the name of a
\* category or the default_category setting, which may be the empty string.
RankingCategories == {"CoreWork", "MTG", ""}

RankingRows ==
  [work_name : RankingNames, hours : RankingHours, cost : RankingCosts,
   quantity : {0}, category : RankingCategories]

InitRanking ==
  /\ categories = DefaultCategories
  /\ keywords = <<>>
  /\ defaultSetting = DefaultCategorySetting
  /\ InitCaches
  /\ IdleUnit /\ IdleSub /\ IdleTargets /\ IdleRace /\ IdleCtl
  /\ arg \in TablesOf(RankingRows, MaxItems)
  /\ last = [op |-> "start"]

\* group_ranking_by_task_group(arg)
GroupRankingByTaskGroup ==
  /\ last.op = "start"
  /\ last' = [op |-> "group_ranking_by_task_group",
              result |-> group_ranking_by_task_group(arg)]
  /\ UNCHANGED <<arg, kwVars, unitVars, subVars, targetVars, raceVars,
                 ctlVars>>

NextRanking == GroupRankingByTaskGroup

SpecRanking == InitRanking /\ [][NextRanking]_vars

\* The sum of field f over a list of rows.
RECURSIVE TotalOf(_, _)
TotalOf(rows, f) ==
  IF rows = <<>> THEN 0 ELSE rows[1][f] + TotalOf(SubSeq(rows, 2, Len(rows)), f)

\* How often row r occurs in a list of rows.
Occurrences(rows, r) == Cardinality({i \in 1..Len(rows) : rows[i] = r})

NonIncreasing(rows, f) ==
  \A i \in 1..(Len(rows) - 1) : rows[i][f] >= rows[i + 1][f]

\* C22: the groups are in non-increasing order of total_hours, and the
\* members of every group in non-increasing order of hours.
C22_RankingOrdered ==
  last.op = "group_ranking_by_task_group" =>
    /\ NonIncreasing(last.result, "total_hours")
    /\ \A g \in 1..Len(last.result) :
         NonIncreasing(last.result[g].members, "hours")

\* The group of the second input row, the one with more hours, came out
\* first.
C22_Witness ==
  /\ last.op = "group_ranking_by_task_group"
  /\ Len(arg) = 2 /\ Len(last.result) = 2
  /\ last.result[1].total_hours > last.result[2].total_hours
  /\ RankingKey(arg[1]) =
       <<last.result[2].group_name, last.result[2].normalized_name>>

\* The positions of the input rows that have the key of group g of the
\* result.
RowsOfGroup(g) ==
  {i \in 1..Len(arg) :
     RankingKey(arg[i]) = <<last.result[g].group_name,
                            last.result[g].normalized_name>>}

C24_NamelessRowSkipped ==
  last.op = "group_ranking_by_task_group" =>
    LET named == SelectSeq(arg, LAMBDA r : r.work_name # <<>>)
    IN  /\ \A g \in 1..Len(last.result) :
             \A m \in 1..Len(last.result[g].members) :
               last.result[g].members[m].work_name # <<>>
        /\ TotalOf(last.result, "total_hours") = TotalOf(named, "hours")
        /\ TotalOf(last.result, "member_count") = Len(named)

\* ------------------------------------------------------------ aggregates
\* The rows of the aggregate queries: (category2, work_name) with the sum of
\* quantity, in hundredths.  The handlers run on a process whose caches are
\* not loaded.

\* get_unit_type on the work name of a row.
RowUnitType(rules, row) ==
  IF row.work_name = <<>> THEN "hours"
  ELSE UnitTypeResult(rules, row.work_name)

\* The reduction decision of the loop body on a row.
RowIsReduction(kws, default, flagged, targets, row) ==
  \/ AutoCategorizeResult(kws, row.category2, row.work_name, default)
       \in flagged
  \/ row.work_name # <<>> /\ row.work_name \in targets

\* round(n / d * 100, 1) in tenths of a percent, 0 when d is 0.
RatioTenths(n, d) == IF d > 0 THEN (2000 * n + d) \div (2 * d) ELSE 0

\* The caches a handler leaves loaded after a loop that asked for them.
LoadCaches(kc, dc, rc, tc, asked) ==
  /\ kwCache' = IF asked THEN kc ELSE kwCache
  /\ defaultCache' = IF asked THEN dc ELSE defaultCache
  /\ reductionCache' = IF asked THEN rc ELSE reductionCache
  /\ taskCache' = IF asked THEN tc ELSE taskCache

\* get_summary on the rows in arg.
GetSummary ==
  \E rev \in BOOLEAN, urev \in BOOLEAN :
    LET rows == {i \in 1..Len(arg) : TRUE}
        uc == UnitCacheAfterGet(urev)
        kc == KeywordCacheAfterGet(rev)
        dc == DefaultCacheAfterGet
        rc == ReductionCacheAfterGet
        tc == TaskCacheAfterGet
        counted == {i \in rows : RowUnitType(uc.val, arg[i]) = "count"}
        timed == rows \ counted
        reduced == {i \in timed :
                      RowIsReduction(kc.val, dc.val, rc.val, tc.val, arg[i])}
        total_hours == SumField(arg, timed, "quantity")
        reduction_hours == SumField(arg, reduced, "quantity")
    IN  /\ unitCache' = IF \E i \in rows : arg[i].work_name # <<>>
                        THEN uc ELSE unitCache
        /\ LoadCaches(kc, dc, rc, tc, timed # {})
        /\ last' = [op |-> "get_summary",
                    total_hours |-> Round1(total_hours),
                    total_count |-> Round1(SumField(arg, counted, "quantity")),
                    reduction_hours |-> reduction_hours,
                    reduction_ratio |->
                      RatioTenths(reduction_hours, total_hours)]
        /\ UNCHANGED <<categories, keywords, defaultSetting, unitRules,
                       taskTargets>>

\* get_reduction_progress on the rows in arg, no goal being set.
GetReductionProgress ==
  \E rev \in BOOLEAN :
    LET rows == {i \in 1..Len(arg) : TRUE}
        kc == KeywordCacheAfterGet(rev)
        dc == DefaultCacheAfterGet
        rc == ReductionCacheAfterGet
        tc == TaskCacheAfterGet
        reduced == {i \in rows :
                      RowIsReduction(kc.val, dc.val, rc.val, tc.val, arg[i])}
        total_hours == SumField(arg, rows, "quantity")
        current_reduction == SumField(arg, reduced, "quantity")
    IN  /\ LoadCaches(kc, dc, rc, tc, rows # {})
        /\ last' = [op |-> "get_reduction_progress",
                    total_hours |-> Round1(total_hours),
                    reduction_hours |-> Round1(current_reduction),
                    reduction_ratio |->
                      RatioTenths(current_reduction, total_hours)]
        /\ UNCHANGED <<categories, keywords, defaultSetting, unitVars,
                       taskTargets>>

\* Rows on hours and rows counted in pieces, under a category that is a
\* reduction target ("t") and under one that is not ("m").
AggregateRows ==
  [category2 : {<<>>},
   work_name : {<<"m">>, <<"t">>, <<"t">> \o kwNyuryoku, kwNyuryoku},
   quantity : {10, 30}]

InitAggregate ==
  /\ categories = DefaultCategories
  /\ keywords = <<KeywordRow(<<"M">>, 2, "contains", 10, TRUE),
                  KeywordRow(<<"T">>, 4, "contains", 10, TRUE)>>
  /\ defaultSetting = DefaultCategorySetting
  /\ InitCaches
  /\ unitRules = <<UnitRow(kwNyuryoku, "count", "suffix", 15)>>
  /\ unitCache = NoCache
  /\ IdleSub /\ IdleTargets /\ IdleRace /\ IdleCtl
  /\ arg \in TablesOf(AggregateRows, MaxItems)
  /\ last = [op |-> "start"]

AggregateStep(A) ==
  last.op = "start" /\ A /\ UNCHANGED <<subVars, raceVars, ctlVars, arg>>

NextAggregate ==
  \/ AggregateStep(GetSummary)
  \/ AggregateStep(GetReductionProgress)

SpecAggregate == InitAggregate /\ [][NextAggregate]_vars

\* The rows of arg whose resolved unit type is hours.
TimedRows ==
  SelectSeq(arg, LAMBDA r :
                   RowUnitType(UnitSnapshot(unitRules, FALSE), r) = "hours")

\* C25: the hour total an aggregate reports is the sum over the rows on
\* hours, its reduction hours are part of that sum, and its reduction ratio
\* is the reduction hours over that sum.
C25_CountItemsExcluded ==
  last.op \in {"get_summary", "get_reduction_progress"} =>
    /\ last.total_hours = TotalOf(TimedRows, "quantity")
    /\ last.reduction_hours <= TotalOf(TimedRows, "quantity")
    /\ last.reduction_ratio =
         RatioTenths(last.reduction_hours, TotalOf(TimedRows, "quantity"))

\* ------------------------------------------------- sub-category of a row
\* DEFAULT_SUB_CATEGORY_RULES, in list order: keyword, match type, label.
DEFAULT_SUB_CATEGORY_RULES ==
  <<<<kwDenwa \o kwTaiou, "contains", "CustomerFacing">>,
    <<<<"kME", "kBAR", "kRU">> \o kwTaiou, "contains", "CustomerFacing">>,
    <<<<"T", "E", "L">> \o kwTaiou, "contains", "CustomerFacing">>,
    <<kwTaiou, "suffix", "CustomerFacing">>,
    <<<<"W">> \o kwCheck, "contains", "Specialist">>,
    <<<<"kRE", "kSE">> \o kwCheck, "contains", "Specialist">>,
    <<kwCheck, "suffix", "Specialist">>,
    <<kwNote \o kwSakusei, "contains", "Production">>,
    <<<<"jSHO2", "jRUI">> \o kwSakusei, "contains", "Production">>,
    <<<<"jSHI", "jRYOU">> \o kwSakusei, "contains", "Production">>,
    <<kwSakusei, "suffix", "Production">>,
    <<<<"jSE", "jKOU">>, "contains", "Technical">>,
    <<<<"jGI2", "jKOU">>, "contains", "Technical">>,
    <<kwNote \o kwNyuryoku, "contains", "Input">>,
    <<kwNyuryoku, "suffix", "Input">>>>

\* The scan of task_grouper.get_sub_category over the default rules.
DefaultSubCategory(work_name) ==
  LET text == Lower(work_name)
      Hits(k) ==
        LET keyword == Lower(DEFAULT_SUB_CATEGORY_RULES[k][1])
            match_type == DEFAULT_SUB_CATEGORY_RULES[k][2]
        IN  \/ match_type = "contains" /\ Contains(text, keyword)
            \/ match_type = "suffix" /\ EndsWith(text, keyword)
      hit == {k \in 1..Len(DEFAULT_SUB_CATEGORY_RULES) : Hits(k)}
  IN  IF hit = {} THEN "None"
      ELSE DEFAULT_SUB_CATEGORY_RULES[CHOOSE k \in hit :
                                        \A j \in hit : k <= j][3]

\* task_grouper.get_sub_category(work_name, parent_category_id) given the
\* cached rules: the answer of the rules, else that of the defaults.
get_sub_category(rules, work_name, parent_category_id) ==
  IF work_name = <<>> THEN "None"
  ELSE IF SubCategoryResult(rules, work_name, parent_category_id) # "None"
       THEN SubCategoryResult(rules, work_name, parent_category_id)
       ELSE DefaultSubCategory(work_name)

\* The loop body of get_ranking on the aggregated row (category2, work_name)
\* held in arg: the category, both reduction flags, the unit type and the
\* sub-category, the last asked without a parent category.
GetRankingRow ==
  \E rev \in BOOLEAN, urev \in BOOLEAN, srev \in BOOLEAN :
    LET cat2 == arg[1]
        work_name == arg[2]
        kc == KeywordCacheAfterGet(rev)
        texts == TextsToCheck(cat2, work_name)
        usesDefault == texts = <<>> \/ FirstKeywordHit(kc.val, texts) = 0
        dc == IF usesDefault THEN DefaultCacheAfterGet ELSE defaultCache
        sc == IF work_name # <<>> THEN SubCacheAfterGet(srev) ELSE subCache
    IN  /\ kwCache' = kc
        /\ defaultCache' = dc
        /\ reductionCache' = ReductionCacheAfterGet
        /\ taskCache' = IF work_name # <<>> THEN TaskCacheAfterGet
                        ELSE taskCache
        /\ unitCache' = IF work_name # <<>> THEN UnitCacheAfterGet(urev)
                        ELSE unitCache
        /\ subCache' = sc
        /\ last' = [op |-> "get_ranking",
                    category |-> AutoCategorizeResult(kc.val, cat2, work_name,
                                                      dc.val),
                    sub_category |-> get_sub_category(sc.val, work_name, 0)]
        /\ UNCHANGED <<categories, keywords, defaultSetting, unitRules,
                       subRules, taskTargets>>

\* Sub-category rules scoped to core work (1), scoped to MTG (2) and
\* unscoped (0), with labels no default rule has.
TagSubRows ==
  {SubRow("OfCoreWork", kwNyuryoku, "suffix", 30, 1),
   SubRow("OfMTG", kwTaiou, "contains", 20, 2),
   SubRow("Unscoped", kwTaiou, "suffix", 10, 0)}

TagItems ==
  {<<<<>>, w>> : w \in {<<>>, <<"jDEN">>, kwNyuryoku, <<"m">> \o kwNyuryoku,
                        kwTaiou, <<"m">> \o kwTaiou, kwTaiou \o <<"m">>}}

InitTag ==
  /\ categories = DefaultCategories
  /\ keywords = <<KeywordRow(<<"M">>, 2, "contains", 10, TRUE)>>
  /\ defaultSetting = DefaultCategorySetting
  /\ InitCaches
  /\ IdleUnit /\ IdleTargets /\ IdleRace /\ IdleCtl
  /\ subRules \in TablesOf(TagSubRows, MaxRules)
  /\ subCache = NoCache
  /\ arg \in TagItems
  /\ last = [op |-> "start"]

NextTag ==
  /\ last.op = "start"
  /\ GetRankingRow
  /\ UNCHANGED <<raceVars, ctlVars, arg>>

SpecTag == InitTag /\ [][NextTag]_vars

\* C26: the sub-category of a row of get_ranking is absent, or a label of
\* the default rules or of an unscoped rule, or the label of a rule whose
\* parent category is the category of the row.
C26_SubCategoryWithinParent ==
  last.op = "get_ranking" =>
    \/ last.sub_category = "None"
    \/ \E k \in 1..Len(DEFAULT_SUB_CATEGORY_RULES) :
         DEFAULT_SUB_CATEGORY_RULES[k][3] = last.sub_category
    \/ \E k \in 1..Len(subRules) :
         /\ subRules[k].sub_category_name = last.sub_category
         /\ \/ subRules[k].parent_category_id = 0
            \/ categories[subRules[k].parent_category_id].name = last.category

\* ------------------------------------------- settings and category flags
\* api_update_settings with a body that holds default_category: store
\* str(value), commit, return.
ApiUpdateSettings(value) ==
  /\ defaultSetting' = value
  /\ last' = [op |-> "api_update_settings"]
  /\ UNCHANGED <<categories, keywords, kwCache, reductionCache, defaultCache>>

\* CategoryMapping.is_target_for_reduction(display_cat)
IsTargetForReduction(display_cat) ==
  /\ reductionCache' = ReductionCacheAfterGet
  /\ last' = [op |-> "is_target_for_reduction", display_cat |-> display_cat,
              result |-> display_cat \in ReductionCacheAfterGet.val]
  /\ UNCHANGED <<categories, keywords, defaultSetting, kwCache, defaultCache>>

SettingValues == {"CoreWork", "Other", ""}

InitSettings ==
  /\ categories = DefaultCategories
  /\ keywords = <<KeywordRow(<<"T">>, 4, "contains", 10, TRUE)>>
  /\ defaultSetting = DefaultCategorySetting
  /\ InitCaches
  /\ IdleUnit /\ IdleSub /\ IdleTargets /\ IdleRace /\ IdleCtl /\ IdleArg
  /\ last = [op |-> "start"]

NextSettings ==
  \/ \E text \in ClsTexts :
       KeywordAxis(AutoCategorize(<<>>, text) /\ UNCHANGED ops)
  \/ \E i \in 1..Len(DefaultCategories) :
       KeywordAxis(IsTargetForReduction(DefaultCategories[i].name)
                   /\ UNCHANGED ops)
  \/ \E value \in SettingValues :
       KeywordAxis(Mutating(ApiUpdateSettings(value)))
  \/ \E id \in ReductionCategoryIds, flag \in BOOLEAN :
       KeywordAxis(Mutating(ApiUpdateCategory(id, flag)))

SpecSettings == InitSettings /\ [][NextSettings]_vars

\* C27: a call of auto_categorize on texts that no rule matches returns the
\* committed value of the default_category setting.
C27_FallbackIsCurrentSetting ==
  (/\ last.op = "auto_categorize"
   /\ MatchingRows(last.source_cat, last.work_name) = {})
    => last.result = defaultSetting

\* C28: is_target_for_reduction answers by the committed
\* is_reduction_target flag of the category of that name.
C28_CategoryFlagReadFresh ==
  last.op = "is_target_for_reduction" =>
    (last.result <=>
       \E i \in 1..Len(categories) :
         /\ categories[i].name = last.display_cat
         /\ categories[i].is_reduction_target)

\* ---------------------------------------------------------------------------
\* Task reduction targets: the class methods and their cache
\* ---------------------------------------------------------------------------

\* The committed flag of a work name: on when its row exists and is flagged.
CommittedFlag(work_name) ==
  work_name \in DOMAIN taskTargets /\ taskTargets[work_name]

ClearedTaskCache == [built |-> FALSE, val |-> {}]

\* TaskReductionTarget.set_as_target
set_as_target(t, work_name) ==
  [w \in DOMAIN t \cup {work_name} |-> IF w = work_name THEN TRUE ELSE t[w]]

\* TaskReductionTarget.remove_from_target: a missing row is left missing.
remove_from_target(t, work_name) ==
  IF work_name \in DOMAIN t THEN [t EXCEPT ![work_name] = FALSE] ELSE t

\* TaskReductionTarget.is_work_reduction_target: False on an empty name
\* without touching the cache, else membership in get_cached_targets().
IsWorkReductionTarget(work_name) ==
  /\ taskTargets' = taskTargets
  /\ taskCache' = IF work_name = <<>> THEN taskCache ELSE TaskCacheAfterGet
  /\ last' = [op |-> "is_work_reduction_target", work_name |-> work_name,
              result |-> work_name # <<>>
                         /\ work_name \in TaskCacheAfterGet.val]
  /\ UNCHANGED <<kwVars, unitVars, subVars>>

\* toggle_target that leaves the cache as it was.
ToggleTargetKeepingCache(work_name) ==
  /\ taskTargets' = toggle_target(taskTargets, work_name)
  /\ taskCache' = taskCache
  /\ last' = [op |-> "toggle_target", work_name |-> work_name,
              before |-> CommittedFlag(work_name),
              result |-> toggle_target(taskTargets, work_name)[work_name]]
  /\ UNCHANGED <<kwVars, unitVars, subVars>>

\* TaskReductionTarget.toggle_target: flip or insert, commit, clear the
\* cache, return the flag of the row.
ToggleTarget(work_name) ==
  /\ taskTargets' = toggle_target(taskTargets, work_name)
  /\ taskCache' = ClearedTaskCache
  /\ last' = [op |-> "toggle_target", work_name |-> work_name,
              before |-> CommittedFlag(work_name),
              result |-> toggle_target(taskTargets, work_name)[work_name]]
  /\ UNCHANGED <<kwVars, unitVars, subVars>>

\* TaskReductionTarget.set_as_target: commit and clear the cache.
SetAsTarget(work_name) ==
  /\ taskTargets' = set_as_target(taskTargets, work_name)
  /\ taskCache' = ClearedTaskCache
  /\ last' = [op |-> "set_as_target", work_name |-> work_name]
  /\ UNCHANGED <<kwVars, unitVars, subVars>>

\* TaskReductionTarget.remove_from_target: commit and clear the cache only
\* when the row exists.
RemoveFromTarget(work_name) ==
  /\ taskTargets' = remove_from_target(taskTargets, work_name)
  /\ taskCache' = IF work_name \in DOMAIN taskTargets THEN ClearedTaskCache
                  ELSE taskCache
  /\ last' = [op |-> "remove_from_target", work_name |-> work_name]
  /\ UNCHANGED <<kwVars, unitVars, subVars>>

\* TaskReductionTarget.bulk_set_targets: set every name, commit, clear.
BulkSetTargets(work_names, is_target) ==
  /\ taskTargets' = bulk_set_targets(taskTargets, work_names, is_target, 1)
  /\ taskCache' = ClearedTaskCache
  /\ last' = [op |-> "bulk_set_targets"]
  /\ UNCHANGED <<kwVars, unitVars, subVars>>

TargetNames == {<<>>, <<"m">>, <<"t">>}

TargetLists == {<<>>, <<<<"m">>>>, <<<<>>, <<"t">>>>, <<<<"m">>, <<"t">>>>}

InitTargets ==
  /\ categories = DefaultCategories
  /\ keywords = <<>>
  /\ defaultSetting = DefaultCategorySetting
  /\ InitCaches
  /\ IdleUnit /\ IdleSub /\ IdleTargets /\ IdleRace /\ IdleCtl /\ IdleArg
  /\ last = [op |-> "start"]

TargetStep(A) == A /\ UNCHANGED <<raceVars, axis, arg>>

NextTargets ==
  \/ \E w \in TargetNames :
       TargetStep(IsWorkReductionTarget(w) /\ UNCHANGED ops)
  \/ \E w \in TargetNames : TargetStep(Mutating(ToggleTarget(w)))
  \/ \E w \in TargetNames : TargetStep(Mutating(SetAsTarget(w)))
  \/ \E w \in TargetNames : TargetStep(Mutating(RemoveFromTarget(w)))
  \/ \E l \in TargetLists, flag \in BOOLEAN :
       TargetStep(Mutating(BulkSetTargets(l, flag)))
  \/ \E w \in TargetNames :
       TargetStep(Mutating(ToggleTaskReductionTarget(w)))
  \/ \E l \in TargetLists, flag \in BOOLEAN :
       TargetStep(Mutating(BulkToggleTaskReductionTarget(l, flag)))

SpecTargets == InitTargets /\ [][NextTargets]_vars

FlaggedNames == {w \in DOMAIN taskTargets : taskTargets[w]}

C30_ActiveKeywordsReferenceCategory ==
  \A i \in 1..Len(keywords) :
    keywords[i].is_active =>
      /\ keywords[i].display_category_id \in 1..Len(categories)
      /\ categories[keywords[i].display_category_id] # DeletedCategory

====
